---- MODULE Spec2Model ----
(***************************************************************************)
(* PyCropPDF: the coordinate transform of workers.py and the edit          *)
(* operations of PDFViewer (main_window.py), as a state machine.           *)
(*                                                                         *)
(* Python floats are modelled as exact rationals <<numerator, denominator>> *)
(* in lowest terms with a positive denominator; Python None is the empty   *)
(* sequence and a present value v is <<v>>.                                *)
(***************************************************************************)
EXTENDS Integers, Sequences, FiniteSets, TLC

None == << >>
Some(v) == <<v>>

(***************************************************************************)
(* Rational arithmetic (the float arithmetic of the transform).           *)
(***************************************************************************)
Abs(n) == IF n < 0 THEN -n ELSE n

RECURSIVE Gcd(_, _)
Gcd(a, b) == IF b = 0 THEN a ELSE Gcd(b, a % b)

Rat(n, d) == LET g == Gcd(Abs(n), d) IN <<n \div g, d \div g>>

RInt(n) == <<n, 1>>

RAdd(a, b) == Rat(a[1] * b[2] + b[1] * a[2], a[2] * b[2])

RSub(a, b) == Rat(a[1] * b[2] - b[1] * a[2], a[2] * b[2])

RMul(a, b) == Rat(a[1] * b[1], a[2] * b[2])

RLe(a, b) == a[1] * b[2] <= b[1] * a[2]

RLt(a, b) == a[1] * b[2] < b[1] * a[2]

\* Python max(a, b) and min(a, b)
RMax(a, b) == IF RLt(a, b) THEN b ELSE a

RMin(a, b) == IF RLt(b, a) THEN b ELSE a

RFloor(a) == a[1] \div a[2]

RCeil(a) == -((-a[1]) \div a[2])

IMax(a, b) == IF a < b THEN b ELSE a

(***************************************************************************)
(* fitz.Rect: [x0, y0, x1, y1] of rationals.  QRectF: [x, y, w, h].        *)
(***************************************************************************)
FRect(x0, y0, x1, y1) == [x0 |-> x0, y0 |-> y0, x1 |-> x1, y1 |-> y1]

\* fitz.Rect.width / .height: never negative
RectWidth(r) == RMax(RInt(0), RSub(r.x1, r.x0))

RectHeight(r) == RMax(RInt(0), RSub(r.y1, r.y0))

QRectF(x, y, w, h) == [x |-> x, y |-> y, w |-> w, h |-> h]

\* QRectF.isValid(): what a selection or a whiteout rectangle always satisfies
QRectIsValid(q) == q.w > 0 /\ q.h > 0

(***************************************************************************)
(* workers.py: _translate_rect_to_pdf_coords                              *)
(***************************************************************************)
\* The same transform with x1, y1 derived from the already clamped x0, y0.
translate_x1_from_clamped(scene_rect, page_dims, pdf_page_rect, page_num, view_mode, max_dims, max_odd_dims, max_even_dims) ==
    LET page_width == page_dims[1]
        page_height == page_dims[2]
        current_max_dims == IF view_mode = "all" THEN max_dims
                            ELSE IF page_num % 2 = 0 THEN max_odd_dims
                                 ELSE max_even_dims
        x_offset == (current_max_dims[1] - page_width) \div 2
        y_offset == (current_max_dims[2] - page_height) \div 2
        ref_rect == pdf_page_rect
        sfx == IF page_width > 0
               THEN RMul(RectWidth(ref_rect), Rat(1, page_width)) ELSE RInt(0)
        sfy == IF page_height > 0
               THEN RMul(RectHeight(ref_rect), Rat(1, page_height)) ELSE RInt(0)
        x0 == RMax(ref_rect.x0, RMin(RAdd(RMul(RInt(scene_rect.x - x_offset), sfx),
                                          ref_rect.x0), ref_rect.x1))
        y0 == RMax(ref_rect.y0, RMin(RAdd(RMul(RInt(scene_rect.y - y_offset), sfy),
                                          ref_rect.y0), ref_rect.y1))
        x1 == RAdd(x0, RMul(RInt(scene_rect.w), sfx))
        y1 == RAdd(y0, RMul(RInt(scene_rect.h), sfy))
    IN  FRect(x0, y0,
              RMax(ref_rect.x0, RMin(x1, ref_rect.x1)),
              RMax(ref_rect.y0, RMin(y1, ref_rect.y1)))

\* The same transform without the centring offset of the page on its canvas.
translate_without_offset(scene_rect, page_dims, pdf_page_rect, page_num, view_mode, max_dims, max_odd_dims, max_even_dims) ==
    LET ref_rect == pdf_page_rect
        sfx == IF page_dims[1] > 0
               THEN RMul(RectWidth(ref_rect), Rat(1, page_dims[1])) ELSE RInt(0)
        sfy == IF page_dims[2] > 0
               THEN RMul(RectHeight(ref_rect), Rat(1, page_dims[2])) ELSE RInt(0)
        x0 == RAdd(RMul(RInt(scene_rect.x), sfx), ref_rect.x0)
        y0 == RAdd(RMul(RInt(scene_rect.y), sfy), ref_rect.y0)
        x1 == RAdd(x0, RMul(RInt(scene_rect.w), sfx))
        y1 == RAdd(y0, RMul(RInt(scene_rect.h), sfy))
    IN  FRect(RMax(ref_rect.x0, RMin(x0, ref_rect.x1)),
              RMax(ref_rect.y0, RMin(y0, ref_rect.y1)),
              RMax(ref_rect.x0, RMin(x1, ref_rect.x1)),
              RMax(ref_rect.y0, RMin(y1, ref_rect.y1)))

translate_rect_to_pdf_coords(scene_rect, page_dims, pdf_page_rect, page_num, view_mode, max_dims, max_odd_dims, max_even_dims) ==
    LET page_width == page_dims[1]
        page_height == page_dims[2]
        current_max_dims == IF view_mode = "all" THEN max_dims
                            ELSE IF page_num % 2 = 0 THEN max_odd_dims
                                 ELSE max_even_dims
        max_width == current_max_dims[1]
        max_height == current_max_dims[2]
        x_offset == (max_width - page_width) \div 2
        y_offset == (max_height - page_height) \div 2
        ref_rect == pdf_page_rect
        scale_factor_x == IF page_width > 0
                          THEN RMul(RectWidth(ref_rect), Rat(1, page_width))
                          ELSE RInt(0)
        scale_factor_y == IF page_height > 0
                          THEN RMul(RectHeight(ref_rect), Rat(1, page_height))
                          ELSE RInt(0)
        crop_x0 == RAdd(RMul(RInt(scene_rect.x - x_offset), scale_factor_x),
                        ref_rect.x0)
        crop_y0 == RAdd(RMul(RInt(scene_rect.y - y_offset), scale_factor_y),
                        ref_rect.y0)
        crop_x1 == RAdd(crop_x0, RMul(RInt(scene_rect.w), scale_factor_x))
        crop_y1 == RAdd(crop_y0, RMul(RInt(scene_rect.h), scale_factor_y))
    IN  FRect(RMax(ref_rect.x0, RMin(crop_x0, ref_rect.x1)),
              RMax(ref_rect.y0, RMin(crop_y0, ref_rect.y1)),
              RMax(ref_rect.x0, RMin(crop_x1, ref_rect.x1)),
              RMax(ref_rect.y0, RMin(crop_y1, ref_rect.y1)))

(***************************************************************************)
(* Bounds of the model.                                                    *)
(***************************************************************************)
\* pages of the largest file that can be opened
MaxPages == 2
\* edits (whiteouts, deletions) that can be undone at one time, in a session
\* that mixes every operation
MaxEdits == 1
\* whiteout fills drawn on one page in a session of edits and undos only; above
\* the undo limit, so that the undo stack overflows
MaxFills == 11
\* render and save workers in flight at once
MaxWorkers == 1

(***************************************************************************)
(* The PDF library (fitz), as far as the program uses it.                  *)
(* A page: its identity, the size of its visual rect (page.rect is         *)
(* (0, 0, vw, vh)), its rotation, and the fills drawn on it (physical      *)
(* rects, in drawing order).  A document is its sequence of pages;         *)
(* tobytes() / fitz.open("pdf", bytes) hand the same sequence over.        *)
(***************************************************************************)
Page(id, vw, vh, rot) == [id |-> id, vw |-> vw, vh |-> vh, rot |-> rot, fills |-> << >>]

\* page.rect
PageRect(page) == FRect(RInt(0), RInt(0), RInt(page.vw), RInt(page.vh))

\* visual_rect * page.derotation_matrix: the bounding rect of the transformed
\* corners.  Rotation 90: visual (x, y) is physical (y, vw - x).
Derotate(page, r) ==
    IF page.rot = 0
    THEN FRect(RMin(r.x0, r.x1), RMin(r.y0, r.y1), RMax(r.x0, r.x1), RMax(r.y0, r.y1))
    ELSE FRect(RMin(r.y0, r.y1),
               RSub(RInt(page.vw), RMax(r.x0, r.x1)),
               RMax(r.y0, r.y1),
               RSub(RInt(page.vw), RMin(r.x0, r.x1)))

\* fitz.Matrix(1.5, 1.5) applied to a coordinate
Zoom(a) == RMul(a, Rat(3, 2))

\* page.get_pixmap(matrix=zoom_matrix, clip=clip_rect): the raster's
\* (width, height); the clip is given here in visual coordinates.
PixmapDims(page, visual_clip) ==
    LET r == IF visual_clip = None THEN PageRect(page) ELSE visual_clip[1]
    IN  << IMax(0, RCeil(Zoom(r.x1)) - RFloor(Zoom(r.x0))),
           IMax(0, RCeil(Zoom(r.y1)) - RFloor(Zoom(r.y0))) >>

\* The files that can be opened: n pages alternating a landscape page and a
\* rotated portrait page, so that the odd and the even group differ in size.
FilePage(i) == IF i % 2 = 1 THEN Page(i, 4, 2, 0) ELSE Page(i, 2, 4, 90)

File(n) == [i \in 1..n |-> FilePage(i)]

Files == {File(n) : n \in 1..MaxPages}

\* the rectangle the user draws, in scene pixels: its left and top edges lie
\* inside every canvas, its right and bottom edges beyond every raster
UserRects == {QRectF(1, 1, 8, 5)}

(***************************************************************************)
(* State of the PDFViewer window (main_window.py), its views (widgets.py)  *)
(* and the workers of its thread pool (workers.py).                        *)
(***************************************************************************)
VARIABLES
    pdf_doc,                    \* None, or <<the sequence of pages>>
    images,                     \* per page: None, or <<(width, height)>> of its raster
    pages_rendered,
    view_mode,                  \* "odd_even" | "all"
    preview_page_num,           \* None, or <<page number>>
    is_processing,
    active_crop_info,           \* None, or <<[rects, view_mode, image_dims]>>
    undo_stack,                 \* sequence of documents (pdf_doc.tobytes())
    show_crop_success_msg,
    show_whiteout_success_msg,
    single_cache,               \* single_view_pixmap_cache: None, or <<composite>>
    odd_cache,                  \* odd_view_pixmap_cache
    even_cache,                 \* even_view_pixmap_cache
    single_sel,                 \* single_view.selection_item: None, or <<QRectF>>
    odd_sel,
    even_sel,
    shown,                      \* the visible views: "split" (odd and even) | "single"
    tool,                       \* the views' tool: "select" | "whiteout" (the colour picker is left out)
    thumbs,                     \* number of ThumbnailWidgets in the sidebar
    workers,                    \* workers started on the thread pool and not finished
    saved,                      \* None, or <<the file the step just taken wrote>>
    crashed,                    \* an exception escaped a slot (PyQt aborts)
    override_cursors,           \* QApplication's stack of override cursors: <<its depth>>,
                                \* or None in a specification that does not follow it
    last,                       \* the handler that ran last, and how it ended
    probe                       \* a pure function under test: its arguments and result

vars == << pdf_doc, images, pages_rendered, view_mode, preview_page_num,
           is_processing, active_crop_info, undo_stack, show_crop_success_msg,
           show_whiteout_success_msg, single_cache, odd_cache, even_cache,
           single_sel, odd_sel, even_sel, shown, tool, thumbs, workers, saved,
           crashed, override_cursors, last, probe >>

\* the window as one record, so that a handler is a function from state to state
Self == [ pdf_doc |-> pdf_doc, images |-> images, pages_rendered |-> pages_rendered,
          view_mode |-> view_mode, preview_page_num |-> preview_page_num,
          is_processing |-> is_processing, active_crop_info |-> active_crop_info,
          undo_stack |-> undo_stack, show_crop_success_msg |-> show_crop_success_msg,
          show_whiteout_success_msg |-> show_whiteout_success_msg,
          single_cache |-> single_cache, odd_cache |-> odd_cache,
          even_cache |-> even_cache, single_sel |-> single_sel, odd_sel |-> odd_sel,
          even_sel |-> even_sel, shown |-> shown, tool |-> tool, thumbs |-> thumbs,
          workers |-> workers, saved |-> saved, crashed |-> crashed,
          override_cursors |-> override_cursors, last |-> last ]

Becomes(s) ==
    /\ UNCHANGED probe
    /\ pdf_doc' = s.pdf_doc
    /\ images' = s.images
    /\ pages_rendered' = s.pages_rendered
    /\ view_mode' = s.view_mode
    /\ preview_page_num' = s.preview_page_num
    /\ is_processing' = s.is_processing
    /\ active_crop_info' = s.active_crop_info
    /\ undo_stack' = s.undo_stack
    /\ show_crop_success_msg' = s.show_crop_success_msg
    /\ show_whiteout_success_msg' = s.show_whiteout_success_msg
    /\ single_cache' = s.single_cache
    /\ odd_cache' = s.odd_cache
    /\ even_cache' = s.even_cache
    /\ single_sel' = s.single_sel
    /\ odd_sel' = s.odd_sel
    /\ even_sel' = s.even_sel
    /\ shown' = s.shown
    /\ tool' = s.tool
    /\ thumbs' = s.thumbs
    /\ workers' = s.workers
    /\ saved' = s.saved
    /\ crashed' = s.crashed
    /\ override_cursors' = s.override_cursors
    /\ last' = s.last

\* PDFViewer.__init__ without an input file
InitialWindow ==
    [ pdf_doc |-> None, images |-> << >>, pages_rendered |-> 0,
      view_mode |-> "odd_even", preview_page_num |-> None, is_processing |-> FALSE,
      active_crop_info |-> None, undo_stack |-> << >>,
      show_crop_success_msg |-> FALSE, show_whiteout_success_msg |-> FALSE,
      single_cache |-> None, odd_cache |-> None, even_cache |-> None,
      single_sel |-> None, odd_sel |-> None, even_sel |-> None,
      shown |-> "split", tool |-> "select", thumbs |-> 0, workers |-> << >>,
      saved |-> None, crashed |-> FALSE, override_cursors |-> None,
      last |-> [op |-> "init", res |-> "ok"] ]

Did(s, op, res) == [s EXCEPT !.last = [op |-> op, res |-> res], !.saved = None]

\* `if self.pdf_doc:` -- a fitz.Document has __len__ (its page count) and no
\* __bool__, so a document without pages counts as no document
DocTruthy(s) == s.pdf_doc # None /\ Len(s.pdf_doc[1]) > 0

SetMax(S) == CHOOSE x \in S : \A y \in S : y <= x

\* the indices (1-based) of the rasters that are present among idxs
ValidIdx(imgs, idxs) == SelectSeq(idxs, LAMBDA i : imgs[i] # None)

Indices(n) == [i \in 1..n |-> i]

OddIdx(n) == SelectSeq(Indices(n), LAMBDA i : i % 2 = 1)

EvenIdx(n) == SelectSeq(Indices(n), LAMBDA i : i % 2 = 0)

MaxWidthOf(imgs, idxs) == SetMax({imgs[idxs[k]][1][1] : k \in 1..Len(idxs)})

MaxHeightOf(imgs, idxs) == SetMax({imgs[idxs[k]][1][2] : k \in 1..Len(idxs)})

\* the loop with the last raster opaque instead of the first
Composite_last_opaque(imgs, idxs, max_width, max_height) ==
    [ w |-> max_width, h |-> max_height,
      layers |-> [k \in 1..Len(idxs) |->
                    [ page |-> idxs[k] - 1,
                      x |-> (max_width - imgs[idxs[k]][1][1]) \div 2,
                      y |-> (max_height - imgs[idxs[k]][1][2]) \div 2,
                      opacity |-> IF k = Len(idxs) THEN 100 ELSE 20 ]] ]

\* The QPainter loop shared by the three composites: the first raster opaque,
\* the others at opacity 0.2 (opacity in percent), each centred on the canvas.
Composite(imgs, idxs, max_width, max_height) ==
    [ w |-> max_width, h |-> max_height,
      layers |-> [k \in 1..Len(idxs) |->
                    [ page |-> idxs[k] - 1,
                      x |-> (max_width - imgs[idxs[k]][1][1]) \div 2,
                      y |-> (max_height - imgs[idxs[k]][1][2]) \div 2,
                      opacity |-> IF k = 1 THEN 100 ELSE 20 ]] ]

\* is_processing, and setOverrideCursor / restoreOverrideCursor (a restore on
\* an empty stack does nothing)
setUIProcessing(s, b) ==
    [s EXCEPT !.is_processing = b,
              !.override_cursors =
                  IF @ = None THEN None
                  ELSE IF b THEN Some(@[1] + 1) ELSE Some(IMax(0, @[1] - 1))]

invalidate_pixmap_cache(s) ==
    [s EXCEPT !.single_cache = None, !.odd_cache = None, !.even_cache = None]

updateThumbnails(s) == [s EXCEPT !.thumbs = Len(s.images)]

showSinglePagePreview(s, page_num) ==
    LET s1 == [s EXCEPT !.shown = "single", !.single_sel = None]
    IN  IF 0 <= page_num /\ page_num < Len(s1.images)
        THEN IF s1.images[page_num + 1] = None
             THEN [s1 EXCEPT !.crashed = TRUE]   \* QPixmap.fromImage(None)
             ELSE s1
        ELSE s1

updateSingleViewOverlay(s) ==
    IF Len(s.images) = 0 THEN s
    ELSE LET s1 == [s EXCEPT !.single_sel = None]
             valid_images == ValidIdx(s.images, Indices(Len(s.images)))
         IN  IF s1.single_cache = None
             THEN IF Len(valid_images) = 0 THEN s1
                  ELSE [s1 EXCEPT !.single_cache =
                            Some(Composite(s.images, valid_images,
                                           MaxWidthOf(s.images, valid_images),
                                           MaxHeightOf(s.images, valid_images)))]
             ELSE s1

\* the split composites sized by each group's own rasters
updateSplitViewOverlay_own_max(s) ==
    IF Len(s.images) = 0 THEN s
    ELSE LET s1 == [s EXCEPT !.odd_sel = None, !.even_sel = None]
             valid_images == ValidIdx(s.images, Indices(Len(s.images)))
             odd_pages == ValidIdx(s.images, OddIdx(Len(s.images)))
             even_pages == ValidIdx(s.images, EvenIdx(Len(s.images)))
         IN  IF Len(valid_images) = 0 THEN s1
             ELSE [s1 EXCEPT
                    !.odd_cache =
                        IF Len(odd_pages) > 0 /\ @ = None
                        THEN Some(Composite(s.images, odd_pages,
                                            MaxWidthOf(s.images, odd_pages),
                                            MaxHeightOf(s.images, odd_pages)))
                        ELSE @,
                    !.even_cache =
                        IF Len(even_pages) > 0 /\ @ = None
                        THEN Some(Composite(s.images, even_pages,
                                            MaxWidthOf(s.images, even_pages),
                                            MaxHeightOf(s.images, even_pages)))
                        ELSE @]

updateSplitViewOverlay(s) ==
    IF Len(s.images) = 0 THEN s
    ELSE LET s1 == [s EXCEPT !.odd_sel = None, !.even_sel = None]
             valid_images == ValidIdx(s.images, Indices(Len(s.images)))
             odd_pages == ValidIdx(s.images, OddIdx(Len(s.images)))
             even_pages == ValidIdx(s.images, EvenIdx(Len(s.images)))
         IN  IF Len(valid_images) = 0 THEN s1
             ELSE LET max_width == MaxWidthOf(s.images, valid_images)
                      max_height == MaxHeightOf(s.images, valid_images)
                  IN  [s1 EXCEPT
                        !.odd_cache =
                            IF Len(odd_pages) > 0 /\ @ = None
                            THEN Some(Composite(s.images, odd_pages,
                                                max_width, max_height))
                            ELSE @,
                        !.even_cache =
                            IF Len(even_pages) > 0 /\ @ = None
                            THEN Some(Composite(s.images, even_pages,
                                                max_width, max_height))
                            ELSE @]

updateOverlay(s) ==
    IF Len(s.images) = 0 THEN s
    ELSE IF s.preview_page_num # None
         THEN showSinglePagePreview(s, s.preview_page_num[1])
         ELSE IF s.view_mode = "all"
              THEN updateSingleViewOverlay([s EXCEPT !.shown = "single"])
              ELSE updateSplitViewOverlay([s EXCEPT !.shown = "split"])

(***************************************************************************)
(* Selections (widgets.py: PageGraphicsView, and the sync_selection_*      *)
(* slots).  A slot that runs while _is_syncing_selection is set returns at *)
(* once, so the signals setSelection emits inside a slot change nothing.   *)
(***************************************************************************)
NullRect == QRectF(0, 0, 0, 0)

\* PageGraphicsView.setSelection, as to the selection the view ends with
SetSel(rect) == IF QRectIsValid(rect) THEN Some(rect) ELSE None

sync_selection_from_single(s, rect) ==
    [s EXCEPT !.odd_sel = SetSel(rect), !.even_sel = SetSel(rect)]

sync_selection_to_even(s, rect) ==
    [s EXCEPT !.even_sel = IF @ # None
                           THEN SetSel(QRectF(@[1].x, @[1].y, rect.w, rect.h))
                           ELSE SetSel(rect),
              !.single_sel = SetSel(rect)]

sync_selection_to_odd(s, rect) ==
    [s EXCEPT !.odd_sel = IF @ # None
                          THEN SetSel(QRectF(@[1].x, @[1].y, rect.w, rect.h))
                          ELSE SetSel(rect),
              !.single_sel = SetSel(rect)]

\* view.selectionChanged.emit(rect), delivered to the slot connected to it
selectionChanged(s, view, rect) ==
    CASE view = "single" -> sync_selection_from_single(s, rect)
      [] view = "odd" -> sync_selection_to_even(s, rect)
      [] view = "even" -> sync_selection_to_odd(s, rect)

SelOf(s, view) ==
    CASE view = "single" -> s.single_sel
      [] view = "odd" -> s.odd_sel
      [] view = "even" -> s.even_sel

WithSel(s, view, sel) ==
    CASE view = "single" -> [s EXCEPT !.single_sel = sel]
      [] view = "odd" -> [s EXCEPT !.odd_sel = sel]
      [] view = "even" -> [s EXCEPT !.even_sel = sel]

\* view.setSelection(rect) called by the window with a valid rect
setSelection(s, view, rect) ==
    IF SelOf(s, view) = Some(rect) THEN s
    ELSE selectionChanged(WithSel(s, view, Some(rect)), view, rect)

\* view.setTool(tool) on the three views
setToolAll(s, t) ==
    IF t # "select"
    THEN [s EXCEPT !.tool = t, !.single_sel = None, !.odd_sel = None, !.even_sel = None]
    ELSE [s EXCEPT !.tool = t]

Visible(s, view) == IF view = "single" THEN s.shown = "single" ELSE s.shown = "split"

(***************************************************************************)
(* Undo stack                                                              *)
(***************************************************************************)
UndoLimit == 10

\* pushUndo that never discards
pushUndo_unbounded(s) ==
    IF DocTruthy(s) THEN [s EXCEPT !.undo_stack = Append(@, s.pdf_doc[1])] ELSE s

pushUndo(s) ==
    IF DocTruthy(s)
    THEN LET pushed == Append(s.undo_stack, s.pdf_doc[1])
         IN  [s EXCEPT !.undo_stack = IF Len(pushed) > UndoLimit THEN Tail(pushed)
                                      ELSE pushed]
    ELSE s

(***************************************************************************)
(* Workers (workers.py)                                                    *)
(***************************************************************************)
Worker(kind, pdf_bytes, num_pages, crop_info) ==
    [ kind |-> kind, pdf_bytes |-> pdf_bytes, num_pages |-> num_pages,
      crop_info |-> crop_info, next |-> 0, err |-> FALSE ]

DimsMaxWidth(all_page_dims) ==
    IF Len(all_page_dims) > 0
    THEN SetMax({all_page_dims[k][1] : k \in 1..Len(all_page_dims)}) ELSE 0

DimsMaxHeight(all_page_dims) ==
    IF Len(all_page_dims) > 0
    THEN SetMax({all_page_dims[k][2] : k \in 1..Len(all_page_dims)}) ELSE 0

\* the dimensions of the pages of one parity (page_num 0 is odd)
ParityDims(all_page_dims, parity) ==
    SelectSeq([k \in 1..Len(all_page_dims) |-> <<all_page_dims[k], k>>],
              LAMBDA e : (e[2] - 1) % 2 = parity)

ParityMax(all_page_dims, parity, axis) ==
    LET sub == ParityDims(all_page_dims, parity)
    IN  IF Len(sub) > 0 THEN SetMax({sub[k][1][axis] : k \in 1..Len(sub)}) ELSE 0

\* canvases taken over each parity group's own pages
CanvasDims_own_max(ci) ==
    IF ci.view_mode = "all"
    THEN [ max_dims |-> <<DimsMaxWidth(ci.image_dims), DimsMaxHeight(ci.image_dims)>>,
           max_odd_dims |-> <<0, 0>>, max_even_dims |-> <<0, 0>> ]
    ELSE [ max_dims |-> <<0, 0>>,
           max_odd_dims |-> <<ParityMax(ci.image_dims, 0, 1), ParityMax(ci.image_dims, 0, 2)>>,
           max_even_dims |-> <<ParityMax(ci.image_dims, 1, 1), ParityMax(ci.image_dims, 1, 2)>> ]

\* RenderAllPagesWorker.run: max_dims, max_odd_dims, max_even_dims of the
\* crop_args it hands to every task
RenderCanvasDims(ci) ==
    LET all_page_dims == ci.image_dims
        max_width == DimsMaxWidth(all_page_dims)
        max_height == DimsMaxHeight(all_page_dims)
    IN  IF ci.view_mode = "all"
        THEN [ max_dims |-> <<max_width, max_height>>,
               max_odd_dims |-> <<0, 0>>, max_even_dims |-> <<0, 0>> ]
        ELSE [ max_dims |-> <<0, 0>>,
               max_odd_dims |-> <<max_width, max_height>>,
               max_even_dims |-> <<max_width, max_height>> ]

\* SaveWorker.run: max_dims, max_odd_dims, max_even_dims of its own transform
SaveCanvasDims(ci) ==
    LET all_page_dims == ci.image_dims
        max_width == DimsMaxWidth(all_page_dims)
        max_height == DimsMaxHeight(all_page_dims)
    IN  IF ci.view_mode = "all"
        THEN [ max_dims |-> <<max_width, max_height>>,
               max_odd_dims |-> <<0, 0>>, max_even_dims |-> <<0, 0>> ]
        ELSE [ max_dims |-> <<0, 0>>,
               max_odd_dims |-> <<max_width, max_height>>,
               max_even_dims |-> <<max_width, max_height>> ]

\* RenderAllPagesWorker.run raises before any task when a page has no entry
\* in image_dims (all_page_dims[i])
RenderSetupRaises(w) ==
    w.crop_info # None /\ Len(w.crop_info[1].image_dims) < w.num_pages

\* the visual clip of page_num's task (_render_page_task): None when the page
\* has no rectangle
RenderVisualClip(pdf_bytes, crop_info, page_num) ==
    IF crop_info = None THEN None
    ELSE LET ci == crop_info[1]
             cd == RenderCanvasDims(ci)
         IN  IF page_num \in DOMAIN ci.rects /\ QRectIsValid(ci.rects[page_num])
             THEN Some(translate_rect_to_pdf_coords(
                          ci.rects[page_num], ci.image_dims[page_num + 1],
                          PageRect(pdf_bytes[page_num + 1]), page_num, ci.view_mode,
                          cd.max_dims, cd.max_odd_dims, cd.max_even_dims))
             ELSE None

\* clip_rect = visual_rect * page.derotation_matrix
RenderClip(pdf_bytes, crop_info, page_num) ==
    LET v == RenderVisualClip(pdf_bytes, crop_info, page_num)
    IN  IF v = None THEN None ELSE Some(Derotate(pdf_bytes[page_num + 1], v[1]))

\* the save path with each group's own canvas
SaveVisualRect_own_max(pdf_bytes, ci, page_num) ==
    LET cd == CanvasDims_own_max(ci)
    IN  translate_rect_to_pdf_coords(
            ci.rects[page_num], ci.image_dims[page_num + 1],
            PageRect(pdf_bytes[page_num + 1]), page_num, ci.view_mode,
            cd.max_dims, cd.max_odd_dims, cd.max_even_dims)

\* SaveWorker.run, for a page that has a rectangle: visual_rect
SaveVisualRect(pdf_bytes, ci, page_num) ==
    LET cd == SaveCanvasDims(ci)
    IN  translate_rect_to_pdf_coords(
            ci.rects[page_num], ci.image_dims[page_num + 1],
            PageRect(pdf_bytes[page_num + 1]), page_num, ci.view_mode,
            cd.max_dims, cd.max_odd_dims, cd.max_even_dims)

\* crop_rect = visual_rect * page.derotation_matrix
SaveCropBox(pdf_bytes, ci, page_num) ==
    Derotate(pdf_bytes[page_num + 1], SaveVisualRect(pdf_bytes, ci, page_num))

\* the pages SaveWorker.run gives a crop box
SavePagesWithRect(pdf_bytes, ci) ==
    {p \in 0..(Len(pdf_bytes) - 1) : p \in DOMAIN ci.rects /\ QRectIsValid(ci.rects[p])}

RectIsEmpty(r) == ~RLt(r.x0, r.x1) \/ ~RLt(r.y0, r.y1)

\* SaveWorker.run raises: a page with a rectangle has no entry in image_dims,
\* or page.set_cropbox refuses an empty rect
SaveRaises(pdf_bytes, crop_info) ==
    /\ crop_info # None
    /\ \E p \in SavePagesWithRect(pdf_bytes, crop_info[1]) :
          \/ p + 1 > Len(crop_info[1].image_dims)
          \/ RectIsEmpty(SaveCropBox(pdf_bytes, crop_info[1], p))

\* the file doc.save writes: the pages and the crop boxes set on them
SavedFile(pdf_bytes, crop_info) ==
    [ pages |-> pdf_bytes,
      cropbox |-> IF crop_info = None THEN << >>
                  ELSE [p \in SavePagesWithRect(pdf_bytes, crop_info[1]) |->
                           SaveCropBox(pdf_bytes, crop_info[1], p)] ]

(***************************************************************************)
(* PDFViewer: the handlers                                                 *)
(***************************************************************************)
reloadImages(s) ==
    IF ~DocTruthy(s) THEN s
    ELSE LET s1 == invalidate_pixmap_cache(setUIProcessing(s, TRUE))
             num_pages == Len(s.pdf_doc[1])
         IN  [s1 EXCEPT !.images = [i \in 1..num_pages |-> None],
                        !.pages_rendered = 0,
                        !.workers = Append(@, Worker("render", s.pdf_doc[1], num_pages,
                                                     s.active_crop_info))]

\* the slot for a render worker's result (page_num, image)
pageRendered(s, page_num, image) ==
    IF page_num >= Len(s.images)
    THEN [s EXCEPT !.crashed = TRUE]            \* IndexError in a slot
    ELSE LET s1 == [s EXCEPT !.images[page_num + 1] = Some(image),
                             !.pages_rendered = @ + 1]
         IN  IF s1.pdf_doc # None /\ s1.pages_rendered = Len(s1.pdf_doc[1])
             THEN updateOverlay(updateThumbnails(s1))
             ELSE s1

processingFinished(s) ==
    LET s1 == setUIProcessing(s, FALSE)
    IN  IF s1.show_crop_success_msg
        THEN Did([s1 EXCEPT !.show_crop_success_msg = FALSE],
                 "processingFinished", "PDF cropped successfully!")
        ELSE IF s1.show_whiteout_success_msg
             THEN Did([s1 EXCEPT !.show_whiteout_success_msg = FALSE],
                      "processingFinished", "Whiteout applied successfully!")
             ELSE Did(s1, "processingFinished", "ok")

\* image_dims of a new crop info: the rasters that are present
PresentDims(imgs) ==
    LET present == ValidIdx(imgs, Indices(Len(imgs)))
    IN  [k \in 1..Len(present) |-> imgs[present[k]][1]]

\* a commit that cuts the pages of the document itself down
CommitCrop_in_document(s, crop_rects) ==
    LET s1 == [s EXCEPT !.active_crop_info =
                    Some([ rects |-> crop_rects, view_mode |-> s.view_mode,
                           image_dims |-> PresentDims(s.images) ]),
                        !.show_crop_success_msg = TRUE,
                        !.pdf_doc[1] = [i \in 1..Len(@) |->
                                           IF (i - 1) \in DOMAIN crop_rects
                                           THEN [@[i] EXCEPT !.vw = 1, !.vh = 1]
                                           ELSE @[i]]]
    IN  Did(reloadImages(s1), "cropSelection", "committed")

CommitCrop(s, crop_rects) ==
    LET s1 == [s EXCEPT !.active_crop_info =
                    Some([ rects |-> crop_rects, view_mode |-> s.view_mode,
                           image_dims |-> PresentDims(s.images) ]),
                        !.show_crop_success_msg = TRUE]
    IN  Did(reloadImages(s1), "cropSelection", "committed")

\* a commit that gives a group without a selection the other group's rectangle
cropSelection_fills_groups(s) ==
    IF s.is_processing \/ ~DocTruthy(s) THEN s
    ELSE LET n == Len(s.pdf_doc[1])
         IN  IF s.view_mode = "all"
             THEN IF s.single_sel = None
                  THEN Did(s, "cropSelection", "Please make a selection first.")
                  ELSE CommitCrop(s, [p \in 0..(n - 1) |-> s.single_sel[1]])
             ELSE IF s.odd_sel = None /\ s.even_sel = None
                  THEN Did(s, "cropSelection", "Please make at least one selection.")
                  ELSE CommitCrop(s,
                         [p \in 0..(n - 1) |->
                            IF (p % 2 = 0 /\ s.odd_sel # None) \/ s.even_sel = None
                            THEN s.odd_sel[1] ELSE s.even_sel[1]])

\* committing a crop without asking for a selection first
cropSelection_unchecked(s) ==
    IF s.is_processing \/ ~DocTruthy(s) THEN s
    ELSE LET n == Len(s.pdf_doc[1])
         IN  IF s.view_mode = "all"
             THEN CommitCrop(s, [p \in {q \in 0..(n - 1) : s.single_sel # None} |->
                                   s.single_sel[1]])
             ELSE CommitCrop(s,
                    [p \in {q \in 0..(n - 1) :
                              \/ q % 2 = 0 /\ s.odd_sel # None
                              \/ q % 2 = 1 /\ s.even_sel # None} |->
                       IF p % 2 = 0 THEN s.odd_sel[1] ELSE s.even_sel[1]])

cropSelection(s) ==
    IF s.is_processing \/ ~DocTruthy(s) THEN s
    ELSE LET n == Len(s.pdf_doc[1])
         IN  IF s.view_mode = "all"
             THEN IF s.single_sel = None
                  THEN Did(s, "cropSelection", "Please make a selection first.")
                  ELSE CommitCrop(s, [p \in 0..(n - 1) |-> s.single_sel[1]])
             ELSE IF s.odd_sel = None /\ s.even_sel = None
                  THEN Did(s, "cropSelection", "Please make at least one selection.")
                  ELSE CommitCrop(s,
                         [p \in {q \in 0..(n - 1) :
                                   \/ q % 2 = 0 /\ s.odd_sel # None
                                   \/ q % 2 = 1 /\ s.even_sel # None} |->
                            IF p % 2 = 0 THEN s.odd_sel[1] ELSE s.even_sel[1]])

\* a reset that starts the render batch before it clears the crop info
resetCrop_renders_first(s) ==
    IF s.active_crop_info = None
    THEN Did(s, "resetCrop", "No crop is currently active.")
    ELSE Did([reloadImages(s) EXCEPT !.active_crop_info = None],
             "resetCrop", "Crop has been reset.")

resetCrop(s) ==
    IF s.active_crop_info = None
    THEN Did(s, "resetCrop", "No crop is currently active.")
    ELSE Did(reloadImages([s EXCEPT !.active_crop_info = None]),
             "resetCrop", "Crop has been reset.")

(***************************************************************************)
(* Whiteout                                                                *)
(***************************************************************************)
\* range(start, n, 2) / range(n) as a sequence of page numbers
PageRange(start, n, step) ==
    SelectSeq([k \in 1..n |-> k - 1], LAMBDA q : q >= start /\ (q - start) % step = 0)

\* applyWhiteout, single page preview: the rect is relative to the page's own raster
PreviewVisualRect(rect, page_dims, ref_rect) ==
    LET scale_factor_x == IF page_dims[1] > 0
                          THEN RMul(RectWidth(ref_rect), Rat(1, page_dims[1]))
                          ELSE RInt(0)
        scale_factor_y == IF page_dims[2] > 0
                          THEN RMul(RectHeight(ref_rect), Rat(1, page_dims[2]))
                          ELSE RInt(0)
        crop_x0 == RAdd(RMul(RInt(rect.x), scale_factor_x), ref_rect.x0)
        crop_y0 == RAdd(RMul(RInt(rect.y), scale_factor_y), ref_rect.y0)
        crop_x1 == RAdd(crop_x0, RMul(RInt(rect.w), scale_factor_x))
        crop_y1 == RAdd(crop_y0, RMul(RInt(rect.h), scale_factor_y))
    IN  FRect(crop_x0, crop_y0, crop_x1, crop_y1)

\* the canvas applyWhiteout hands to the transform for both parities
WhiteoutMaxDims(imgs) ==
    LET valid_images == ValidIdx(imgs, Indices(Len(imgs)))
    IN  <<MaxWidthOf(imgs, valid_images), MaxHeightOf(imgs, valid_images)>>

\* all_page_dims of applyWhiteout: (0, 0) for an absent raster
WhiteoutPageDims(imgs) ==
    [k \in 1..Len(imgs) |-> IF imgs[k] = None THEN <<0, 0>> ELSE imgs[k][1]]

WhiteoutVisualRect(s, rect, page_num) ==
    LET page == s.pdf_doc[1][page_num + 1]
        all_page_dims == WhiteoutPageDims(s.images)
        max_dims == WhiteoutMaxDims(s.images)
    IN  IF s.preview_page_num # None
        THEN PreviewVisualRect(rect, all_page_dims[page_num + 1], PageRect(page))
        ELSE translate_rect_to_pdf_coords(rect, all_page_dims[page_num + 1],
                                          PageRect(page), page_num, s.view_mode,
                                          max_dims, max_dims, max_dims)

\* the loop of applyWhiteout; raised: an exception left it
RECURSIVE WhiteoutLoop(_, _, _)
WhiteoutLoop(s, rect, target_pages) ==
    IF target_pages = << >> THEN [state |-> s, raised |-> FALSE]
    ELSE LET page_num == Head(target_pages)
         IN  IF page_num >= Len(s.pdf_doc[1]) \/ page_num >= Len(s.images)
             THEN [state |-> s, raised |-> TRUE]
             ELSE LET page == s.pdf_doc[1][page_num + 1]
                      pdf_rect == Derotate(page, WhiteoutVisualRect(s, rect, page_num))
                  IN  WhiteoutLoop(
                          [s EXCEPT !.pdf_doc[1][page_num + 1].fills = Append(@, pdf_rect)],
                          rect, Tail(target_pages))

applyWhiteout(s, rect, target_pages) ==
    IF Len(ValidIdx(s.images, Indices(Len(s.images)))) = 0 THEN s
    ELSE LET s1 == pushUndo(setUIProcessing(s, TRUE))
             r == WhiteoutLoop(s1, rect, target_pages)
         IN  IF r.raised
             THEN Did(setUIProcessing(r.state, FALSE),
                      "applyWhiteout", "Failed to apply whiteout")
             ELSE Did(reloadImages([r.state EXCEPT !.show_whiteout_success_msg = TRUE]),
                      "applyWhiteout", "drawn")

\* targets that ignore which view sent the request
WhiteoutTargets_all_pages(s, sender) ==
    LET n == Len(s.pdf_doc[1])
    IN  IF s.preview_page_num # None THEN <<s.preview_page_num[1]>>
        ELSE PageRange(0, n, 1)

WhiteoutTargets(s, sender) ==
    LET n == Len(s.pdf_doc[1])
    IN  IF s.preview_page_num # None THEN <<s.preview_page_num[1]>>
        ELSE CASE sender = "single" -> PageRange(0, n, 1)
               [] sender = "odd" -> PageRange(0, n, 2)
               [] sender = "even" -> PageRange(1, n, 2)

\* the handler without its check for an active crop
handleWhiteoutRequest_no_crop_check(s, rect, sender) ==
    IF s.is_processing \/ ~DocTruthy(s) THEN s
    ELSE LET target_pages == WhiteoutTargets(s, sender)
         IN  IF target_pages = << >> THEN s
             ELSE applyWhiteout(s, rect, target_pages)

handleWhiteoutRequest(s, rect, sender) ==
    IF s.is_processing \/ ~DocTruthy(s) THEN s
    ELSE IF s.active_crop_info # None
         THEN Did(s, "handleWhiteoutRequest",
                  "Cannot apply whiteout while a crop is active.")
         ELSE LET target_pages == WhiteoutTargets(s, sender)
              IN  IF target_pages = << >> THEN s
                  ELSE applyWhiteout(s, rect, target_pages)

(***************************************************************************)
(* Delete pages                                                            *)
(***************************************************************************)
RemoveAt(seq, i) == SubSeq(seq, 1, i - 1) \o SubSeq(seq, i + 1, Len(seq))

\* sorted(..., reverse=True)
RECURSIVE SortedDesc(_)
SortedDesc(S) == IF S = {} THEN << >> ELSE <<SetMax(S)>> \o SortedDesc(S \ {SetMax(S)})

\* the remapping loop of deleteSelectedPages (i, current_page_index, new_crop_rects)
RECURSIVE RemapLoop(_, _, _, _, _, _)
RemapLoop(i, n, current_page_index, original_rects, deleted_set, new_crop_rects) ==
    IF i >= n THEN new_crop_rects
    ELSE IF i \notin deleted_set
         THEN RemapLoop(i + 1, n, current_page_index + 1, original_rects, deleted_set,
                        IF i \in DOMAIN original_rects
                        THEN new_crop_rects @@ (current_page_index :> original_rects[i])
                        ELSE new_crop_rects)
         ELSE RemapLoop(i + 1, n, current_page_index, original_rects, deleted_set,
                        new_crop_rects)

\* dropping the deleted entries without shifting the others
RemapCropRects_no_shift(original_rects, n, deleted_set) ==
    [i \in {j \in DOMAIN original_rects : j < n /\ j \notin deleted_set} |->
        original_rects[i]]

RemapCropRects(original_rects, n, deleted_set) ==
    RemapLoop(0, n, 0, original_rects, deleted_set, << >>)

\* the deleting loop; raised: an exception left it
RECURSIVE DeleteLoop(_, _)
DeleteLoop(s, selected_pages) ==
    IF selected_pages = << >> THEN [state |-> s, raised |-> FALSE]
    ELSE LET page_num == Head(selected_pages)
         IN  IF page_num >= Len(s.pdf_doc[1])
             THEN [state |-> s, raised |-> TRUE]         \* delete_page: bad page number
             ELSE LET s1 == [s EXCEPT !.pdf_doc[1] = RemoveAt(@, page_num + 1)]
                  IN  IF page_num >= Len(s1.images)
                      THEN [state |-> s1, raised |-> TRUE]     \* images.pop
                      ELSE LET s2 == [s1 EXCEPT !.images = RemoveAt(@, page_num + 1)]
                           IN  IF s2.active_crop_info # None
                                  /\ Len(s2.active_crop_info[1].image_dims) > 0
                               THEN IF page_num >= Len(s2.active_crop_info[1].image_dims)
                                    THEN [state |-> s2, raised |-> TRUE]
                                    ELSE DeleteLoop(
                                           [s2 EXCEPT !.active_crop_info[1].image_dims =
                                                          RemoveAt(@, page_num + 1)],
                                           Tail(selected_pages))
                               ELSE DeleteLoop(s2, Tail(selected_pages))

\* deleting without saving the document first
deleteSelectedPages_no_push(s, selected) ==
    IF ~DocTruthy(s) THEN Did(s, "deleteSelectedPages", "No PDF is open.")
    ELSE IF selected = {}
         THEN Did(s, "deleteSelectedPages", "Please select pages to delete.")
         ELSE LET s1 == invalidate_pixmap_cache(s)
                  s2 == IF s1.active_crop_info # None
                        THEN [s1 EXCEPT !.active_crop_info[1].rects =
                                  RemapCropRects(@, Len(s1.pdf_doc[1]), selected)]
                        ELSE s1
                  r == DeleteLoop(s2, SortedDesc(selected))
                  u == updateOverlay(updateThumbnails(r.state))
              IN  IF r.raised
                  THEN Did(r.state, "deleteSelectedPages", "Failed to delete pages")
                  ELSE IF u.crashed
                       THEN Did([u EXCEPT !.crashed = FALSE],
                                "deleteSelectedPages", "Failed to delete pages")
                       ELSE Did(u, "deleteSelectedPages", "deleted")

\* saving the document before looking at the checked set
deleteSelectedPages_push_first(s, selected) ==
    IF ~DocTruthy(s) THEN Did(s, "deleteSelectedPages", "No PDF is open.")
    ELSE IF selected = {}
         THEN Did(pushUndo(s), "deleteSelectedPages", "Please select pages to delete.")
         ELSE LET s1 == invalidate_pixmap_cache(pushUndo(s))
                  s2 == IF s1.active_crop_info # None
                        THEN [s1 EXCEPT !.active_crop_info[1].rects =
                                  RemapCropRects(@, Len(s1.pdf_doc[1]), selected)]
                        ELSE s1
                  r == DeleteLoop(s2, SortedDesc(selected))
                  u == updateOverlay(updateThumbnails(r.state))
              IN  IF r.raised
                  THEN Did(r.state, "deleteSelectedPages", "Failed to delete pages")
                  ELSE IF u.crashed
                       THEN Did([u EXCEPT !.crashed = FALSE],
                                "deleteSelectedPages", "Failed to delete pages")
                       ELSE Did(u, "deleteSelectedPages", "deleted")

deleteSelectedPages(s, selected) ==
    IF ~DocTruthy(s) THEN Did(s, "deleteSelectedPages", "No PDF is open.")
    ELSE IF selected = {}
         THEN Did(s, "deleteSelectedPages", "Please select pages to delete.")
         ELSE LET s1 == invalidate_pixmap_cache(pushUndo(s))
                  s2 == IF s1.active_crop_info # None
                        THEN [s1 EXCEPT !.active_crop_info[1].rects =
                                  RemapCropRects(@, Len(s1.pdf_doc[1]), selected)]
                        ELSE s1
                  r == DeleteLoop(s2, SortedDesc(selected))
                  u == updateOverlay(updateThumbnails(r.state))
              IN  IF r.raised
                  THEN Did(r.state, "deleteSelectedPages", "Failed to delete pages")
                  ELSE IF u.crashed        \* the except clause catches it
                       THEN Did([u EXCEPT !.crashed = FALSE],
                                "deleteSelectedPages", "Failed to delete pages")
                       ELSE Did(u, "deleteSelectedPages", "deleted")

(***************************************************************************)
(* Undo, open, save, view switches, tools                                  *)
(***************************************************************************)
\* undo that keeps the crop info
undo_keeps_crop(s) ==
    IF s.undo_stack = << >> THEN s
    ELSE LET s1 == setUIProcessing(s, TRUE)
             pdf_bytes == s1.undo_stack[Len(s1.undo_stack)]
             s2 == [s1 EXCEPT !.undo_stack = SubSeq(@, 1, Len(@) - 1),
                              !.pdf_doc = Some(pdf_bytes)]
         IN  Did(reloadImages(s2), "undo", "Undo successful.")

\* undo that takes the oldest snapshot
undo_fifo(s) ==
    IF s.undo_stack = << >> THEN s
    ELSE LET s1 == setUIProcessing(s, TRUE)
             pdf_bytes == s1.undo_stack[1]
             s2 == [s1 EXCEPT !.undo_stack = Tail(@),
                              !.pdf_doc = Some(pdf_bytes),
                              !.active_crop_info = None]
         IN  Did(reloadImages(s2), "undo", "Undo successful.")

undo(s) ==
    IF s.undo_stack = << >> THEN s
    ELSE LET s1 == setUIProcessing(s, TRUE)
             pdf_bytes == s1.undo_stack[Len(s1.undo_stack)]
             s2 == [s1 EXCEPT !.undo_stack = SubSeq(@, 1, Len(@) - 1),
                              !.pdf_doc = Some(pdf_bytes),
                              !.active_crop_info = None]
         IN  Did(reloadImages(s2), "undo", "Undo successful.")

\* opening a file without emptying the undo stack
loadPDF_keeps_undo_stack(s, file) ==
    LET s1 == [s EXCEPT !.pdf_doc = Some(file),
                        !.active_crop_info = None,
                        !.preview_page_num = None,
                        !.single_sel = None, !.odd_sel = None, !.even_sel = None]
    IN  Did(reloadImages(s1), "loadPDF", "ok")

loadPDF(s, file) ==
    LET s1 == [s EXCEPT !.pdf_doc = Some(file),
                        !.active_crop_info = None,
                        !.preview_page_num = None,
                        !.undo_stack = << >>,
                        !.single_sel = None, !.odd_sel = None, !.even_sel = None]
    IN  Did(reloadImages(s1), "loadPDF", "ok")

\* a save that takes the crop as applied and forgets it
savePDF_consumes_crop(s, save_path_chosen) ==
    IF s.is_processing \/ ~DocTruthy(s) THEN s
    ELSE IF ~save_path_chosen THEN s
         ELSE LET s1 == setUIProcessing(s, TRUE)
              IN  Did([s1 EXCEPT !.workers = Append(@, Worker("save", s.pdf_doc[1],
                                                            Len(s.pdf_doc[1]),
                                                            s.active_crop_info)),
                                 !.active_crop_info = None],
                      "savePDF", "started")

\* save_path_chosen: the save dialog was not cancelled (or a save directory is set)
savePDF(s, save_path_chosen) ==
    IF s.is_processing \/ ~DocTruthy(s) THEN s
    ELSE IF ~save_path_chosen THEN s
         ELSE LET s1 == setUIProcessing(s, TRUE)
              IN  Did([s1 EXCEPT !.workers = Append(@, Worker("save", s.pdf_doc[1],
                                                            Len(s.pdf_doc[1]),
                                                            s.active_crop_info))],
                      "savePDF", "started")

setViewMode(s, mode) ==
    IF s.view_mode = mode THEN s
    ELSE LET selection == IF s.view_mode = "all" THEN s.single_sel ELSE s.odd_sel
             s1 == updateOverlay([s EXCEPT !.view_mode = mode])
         IN  Did(IF selection # None /\ ~s1.crashed
                 THEN setSelection(s1, IF s1.view_mode = "all" THEN "single" ELSE "odd",
                                   selection[1])
                 ELSE s1,
                 "setViewMode", mode)

togglePagePreview(s, page_num) ==
    IF s.is_processing THEN s
    ELSE LET selection == IF s.preview_page_num # None THEN s.single_sel
                          ELSE IF s.view_mode = "all" THEN s.single_sel
                               ELSE s.odd_sel
             s1 == updateOverlay(
                       [s EXCEPT !.preview_page_num =
                            IF @ = Some(page_num) THEN None ELSE Some(page_num)])
         IN  Did(IF selection # None /\ ~s1.crashed
                 THEN setSelection(s1,
                                   IF s1.preview_page_num # None \/ s1.view_mode = "all"
                                   THEN "single" ELSE "odd",
                                   selection[1])
                 ELSE s1,
                 "togglePagePreview", "ok")

resizeEvent(s) ==
    IF DocTruthy(s) /\ ~s.is_processing THEN updateOverlay(s) ELSE s

toggleWhiteoutTool(s) ==
    Did(setToolAll(s, IF s.tool = "whiteout" THEN "select" ELSE "whiteout"),
        "toggleWhiteoutTool", "ok")

(***************************************************************************)
(* The events: what the user and the thread pool can make the window do.   *)
(* setUIProcessing disables the menu bar and the buttons while             *)
(* is_processing; toggleWhiteoutTool disables Crop and Delete while the    *)
(* whiteout tool is on; the undo button is enabled when the stack is not   *)
(* empty.  The views, the thumbnails and file drops are never disabled.    *)
(***************************************************************************)
Alive == ~crashed

MenuEnabled == ~is_processing

ButtonsEnabled == ~is_processing

\* the step to s, unless it would start more workers than the model follows
Starts(s) == Len(s.workers) <= MaxWorkers /\ Becomes(s)

Views == {"single", "odd", "even"}

EditsBelowBound == Len(undo_stack) < MaxEdits

FillsBelowBound ==
    IF pdf_doc = None THEN TRUE
    ELSE \A k \in 1..Len(pdf_doc[1]) : Len(pdf_doc[1][k].fills) < MaxFills

OpenFile ==
    /\ Alive /\ MenuEnabled
    /\ \E file \in Files : Starts(loadPDF(Self, file))

DropFile ==
    /\ Alive
    /\ \E file \in Files : Starts(loadPDF(Self, file))

DrawSelection ==
    /\ Alive /\ tool = "select"
    /\ \E view \in Views, rect \in UserRects :
          /\ Visible(Self, view)
          /\ Becomes(Did(selectionChanged(WithSel(Self, view, Some(rect)), view, rect),
                         "selectionChanged", view))

\* a click without a drag: the press removes the selection, nothing is emitted
ClickSelectionAway ==
    /\ Alive /\ tool = "select"
    /\ \E view \in Views :
          /\ Visible(Self, view)
          /\ SelOf(Self, view) # None
          /\ Becomes(Did(WithSel(Self, view, None), "mousePressEvent", view))

ClickCrop ==
    /\ Alive /\ ButtonsEnabled /\ tool # "whiteout"
    /\ Starts(cropSelection(Self))

ClickResetCrop ==
    /\ Alive /\ ButtonsEnabled
    /\ Starts(resetCrop(Self))

DrawWhiteout ==
    /\ Alive /\ tool = "whiteout" /\ EditsBelowBound
    /\ \E view \in Views, rect \in UserRects :
          /\ Visible(Self, view)
          /\ Starts(handleWhiteoutRequest(Self, rect, view))

ClickDelete ==
    /\ Alive /\ ButtonsEnabled /\ tool # "whiteout" /\ EditsBelowBound
    /\ \E selected \in SUBSET (0..(thumbs - 1)) :
          Becomes(deleteSelectedPages(Self, selected))

ClickUndo ==
    /\ Alive /\ ButtonsEnabled /\ undo_stack # << >>
    /\ Starts(undo(Self))

ClickSave ==
    /\ Alive /\ MenuEnabled
    /\ \E save_path_chosen \in BOOLEAN : Starts(savePDF(Self, save_path_chosen))

ChooseViewMode ==
    /\ Alive /\ MenuEnabled
    /\ \E mode \in {"all", "odd_even"} : Becomes(setViewMode(Self, mode))

ClickThumbnail ==
    /\ Alive
    /\ \E page_num \in 0..(thumbs - 1) : Becomes(togglePagePreview(Self, page_num))

\* a resize that redraws nothing leaves no trace
ResizeWindow ==
    /\ Alive
    /\ resizeEvent(Self) # Self
    /\ Becomes(Did(resizeEvent(Self), "resizeEvent", "ok"))

ClickWhiteoutTool ==
    /\ Alive /\ ButtonsEnabled
    /\ Becomes(toggleWhiteoutTool(Self))

WorkerDone(w) ==
    \/ w.err
    \/ w.kind = "render" /\ w.next = w.num_pages
    \/ w.kind = "save" /\ w.next = 1

\* a render worker emits the result of its next page (executor.map yields the
\* pages in order), and the window's slot runs
RenderResult ==
    /\ Alive
    /\ \E k \in 1..Len(workers) :
          LET w == workers[k]
              page_num == w.next
          IN  /\ w.kind = "render" /\ ~WorkerDone(w) /\ ~RenderSetupRaises(w)
              /\ Becomes(Did(pageRendered(
                                [Self EXCEPT !.workers[k].next = @ + 1], page_num,
                                PixmapDims(w.pdf_bytes[page_num + 1],
                                           RenderVisualClip(w.pdf_bytes, w.crop_info,
                                                            page_num))),
                             "pageRendered", page_num))

\* a render worker's run raises (its set-up, or the rasterization of its next
\* page): it emits error, and processingError shows it
RenderError ==
    /\ Alive
    /\ \E k \in 1..Len(workers) :
          LET w == workers[k]
          IN  /\ w.kind = "render" /\ ~WorkerDone(w)
              /\ Becomes(Did([Self EXCEPT !.workers[k].err = TRUE],
                             "processingError", "render"))

\* a save worker runs: it writes the file and emits result (saveFinished), or
\* raises and emits error (processingError)
SaveRun ==
    /\ Alive
    /\ \E k \in 1..Len(workers) :
          LET w == workers[k]
          IN  /\ w.kind = "save" /\ ~WorkerDone(w)
              /\ IF SaveRaises(w.pdf_bytes, w.crop_info)
                 THEN Becomes(Did([Self EXCEPT !.workers[k].err = TRUE],
                                  "processingError", "save"))
                 ELSE Becomes([Did([Self EXCEPT !.workers[k].next = 1],
                                   "saveFinished", "PDF saved successfully!")
                                  EXCEPT !.saved = Some(SavedFile(w.pdf_bytes,
                                                                  w.crop_info))])

\* a worker emits finished (the finally clause of run)
WorkerFinished ==
    /\ Alive
    /\ \E k \in 1..Len(workers) :
          /\ WorkerDone(workers[k])
          /\ Becomes(processingFinished([Self EXCEPT !.workers = RemoveAt(@, k)]))

InitWindow ==
    /\ pdf_doc = InitialWindow.pdf_doc
    /\ images = InitialWindow.images
    /\ pages_rendered = InitialWindow.pages_rendered
    /\ view_mode = InitialWindow.view_mode
    /\ preview_page_num = InitialWindow.preview_page_num
    /\ is_processing = InitialWindow.is_processing
    /\ active_crop_info = InitialWindow.active_crop_info
    /\ undo_stack = InitialWindow.undo_stack
    /\ show_crop_success_msg = InitialWindow.show_crop_success_msg
    /\ show_whiteout_success_msg = InitialWindow.show_whiteout_success_msg
    /\ single_cache = InitialWindow.single_cache
    /\ odd_cache = InitialWindow.odd_cache
    /\ even_cache = InitialWindow.even_cache
    /\ single_sel = InitialWindow.single_sel
    /\ odd_sel = InitialWindow.odd_sel
    /\ even_sel = InitialWindow.even_sel
    /\ shown = InitialWindow.shown
    /\ tool = InitialWindow.tool
    /\ thumbs = InitialWindow.thumbs
    /\ workers = InitialWindow.workers
    /\ saved = InitialWindow.saved
    /\ crashed = InitialWindow.crashed
    /\ last = InitialWindow.last

InitCursors == override_cursors = InitialWindow.override_cursors

Init == probe = None /\ InitWindow /\ InitCursors

Next ==
    \/ OpenFile
    \/ DropFile
    \/ DrawSelection
    \/ ClickSelectionAway
    \/ ClickCrop
    \/ ClickResetCrop
    \/ DrawWhiteout
    \/ ClickDelete
    \/ ClickUndo
    \/ ClickSave
    \/ ChooseViewMode
    \/ ClickThumbnail
    \/ ResizeWindow
    \/ ClickWhiteoutTool
    \/ RenderResult
    \/ RenderError
    \/ SaveRun
    \/ WorkerFinished

Spec == Init /\ [][Next]_vars

(***************************************************************************)
(* A session of edits and undos only: one file, whiteouts drawn in the     *)
(* all-pages view, deletions and undos, as many as the undo limit and more. *)
(***************************************************************************)
OpenForEditing ==
    /\ Alive /\ MenuEnabled
    /\ Starts(loadPDF(Self, File(MaxPages)))

DrawWhiteoutOnAll ==
    /\ Alive /\ tool = "whiteout" /\ FillsBelowBound
    /\ view_mode = "all" /\ Visible(Self, "single")
    /\ \E rect \in UserRects : Starts(handleWhiteoutRequest(Self, rect, "single"))

DeletePages ==
    /\ Alive /\ ButtonsEnabled /\ tool # "whiteout"
    /\ \E selected \in SUBSET (0..(thumbs - 1)) :
          Becomes(deleteSelectedPages(Self, selected))

NextUndo ==
    \/ OpenForEditing
    \/ ChooseViewMode
    \/ ClickWhiteoutTool
    \/ DrawWhiteoutOnAll
    \/ DeletePages
    \/ ClickUndo
    \/ RenderResult
    \/ WorkerFinished

SpecUndo == Init /\ [][NextUndo]_vars

(***************************************************************************)
(* Dropping files onto the window.  dropEvent calls loadPDF whether or not *)
(* a batch is in flight, so that render batches overlap.                   *)
(***************************************************************************)
\* render batches in flight at once
MaxOverlap == 2

DropWhileRendering ==
    /\ Alive
    /\ Len(workers) < MaxOverlap
    /\ \E file \in Files : Becomes(loadPDF(Self, file))

NextDrop ==
    \/ DropWhileRendering
    \/ RenderResult
    \/ WorkerFinished
    \/ ChooseViewMode
    \/ ResizeWindow

SpecDrop == Init /\ [][NextDrop]_vars

(***************************************************************************)
(* The pure functions on their own: the arguments are drawn in the initial *)
(* state and one step applies the function.                                *)
(***************************************************************************)
window == << pdf_doc, images, pages_rendered, view_mode, preview_page_num,
             is_processing, active_crop_info, undo_stack, show_crop_success_msg,
             show_whiteout_success_msg, single_cache, odd_cache, even_cache,
             single_sel, odd_sel, even_sel, shown, tool, thumbs, workers, saved,
             crashed, override_cursors, last >>

Probe(fn, args) == Some([fn |-> fn, args |-> args, res |-> None])

\* page 100x150 on a canvas 120x150, visual rect (0, 0)-(300, 450)
ExampleTranslateArgs ==
    [ scene_rect |-> QRectF(20, 20, 40, 40), page_dims |-> <<100, 150>>,
      pdf_page_rect |-> FRect(RInt(0), RInt(0), RInt(300), RInt(450)),
      page_num |-> 0, view_mode |-> "all", max_dims |-> <<120, 150>>,
      max_odd_dims |-> <<0, 0>>, max_even_dims |-> <<0, 0>> ]

SceneRects == {QRectF(x, y, w, h) : x \in {-1, 2}, y \in {-1, 2}, w \in {0, 1, 5}, h \in {0, 1, 5}}

PageDims == {<<0, 0>>, <<2, 3>>, <<4, 2>>}

Canvases == {<<4, 3>>, <<7, 6>>}

VisualRects == {FRect(RInt(0), RInt(0), RInt(4), RInt(6)),
                FRect(RInt(1), RInt(2), RInt(5), RInt(4))}

TranslateArgs ==
    [ scene_rect : SceneRects, page_dims : PageDims, pdf_page_rect : VisualRects,
      page_num : {0, 1}, view_mode : {"all", "odd_even"}, max_dims : Canvases,
      max_odd_dims : Canvases, max_even_dims : Canvases ]
    \cup {ExampleTranslateArgs}

InitTranslate ==
    /\ InitWindow /\ InitCursors
    /\ probe \in {Probe("translate", a) : a \in TranslateArgs}

ApplyTranslate ==
    /\ probe # None
    /\ probe[1].fn = "translate"
    /\ probe[1].res = None
    /\ LET a == probe[1].args
       IN  probe' = Some([probe[1] EXCEPT !.res =
                           Some(translate_rect_to_pdf_coords(
                                    a.scene_rect, a.page_dims, a.pdf_page_rect,
                                    a.page_num, a.view_mode, a.max_dims,
                                    a.max_odd_dims, a.max_even_dims))])
    /\ UNCHANGED window

SpecTranslate == InitTranslate /\ [][ApplyTranslate]_vars

\* pages of the largest document whose crop rectangles are re-indexed
MaxRemapPages == 5

\* the rectangle of original page i, different for every page
RectOfPage(i) == QRectF(i, 2 * i, 3, 4)

RemapArgs ==
    UNION {[ n : {n}, deleted_set : SUBSET (0..(n - 1)),
             original_rects : {[i \in dom |-> RectOfPage(i)] : dom \in SUBSET (0..(n - 1))} ]
           : n \in 1..MaxRemapPages}

InitRemap ==
    /\ InitWindow /\ InitCursors
    /\ probe \in {Probe("remap", a) : a \in RemapArgs}

ApplyRemap ==
    /\ probe # None
    /\ probe[1].fn = "remap"
    /\ probe[1].res = None
    /\ LET a == probe[1].args
       IN  probe' = Some([probe[1] EXCEPT !.res =
                           Some(RemapCropRects(a.original_rects, a.n, a.deleted_set))])
    /\ UNCHANGED window

SpecRemap == InitRemap /\ [][ApplyRemap]_vars

(***************************************************************************)
(* The claims                                                              *)
(***************************************************************************)
Probed(fn) == probe # None /\ probe[1].fn = fn /\ probe[1].res # None

C1_Clamp(v, lo, hi) == RMax(lo, RMin(v, hi))

\* one axis of the transform as the claim writes it: the clamped start and end
C1_Axis(pos, len, page_len, canvas_len, v0, v1) ==
    LET off == (canvas_len - page_len) \div 2
        sc == IF page_len = 0 THEN RInt(0)
              ELSE RMul(RSub(v1, v0), Rat(1, page_len))
        a == RAdd(RMul(RInt(pos - off), sc), v0)
        b == RAdd(a, RMul(RInt(len), sc))
    IN  <<C1_Clamp(a, v0, v1), C1_Clamp(b, v0, v1)>>

C1_Canvas(a) ==
    IF a.view_mode = "all" THEN a.max_dims
    ELSE IF a.page_num % 2 = 0 THEN a.max_odd_dims ELSE a.max_even_dims

C1_Expected(a) ==
    LET h == C1_Axis(a.scene_rect.x, a.scene_rect.w, a.page_dims[1], C1_Canvas(a)[1],
                     a.pdf_page_rect.x0, a.pdf_page_rect.x1)
        v == C1_Axis(a.scene_rect.y, a.scene_rect.h, a.page_dims[2], C1_Canvas(a)[2],
                     a.pdf_page_rect.y0, a.pdf_page_rect.y1)
    IN  FRect(h[1], v[1], h[2], v[2])

\* C1: _translate_rect_to_pdf_coords returns, for every overlay rectangle, page
\* size, applicable canvas and visual rect, the rectangle of the claim's formula
\* (offsets floored, scale 0 for a page of size 0, the end taken from the
\* unclamped start, every coordinate clamped into the visual rect); the page
\* 100x150 on the canvas 120x150 with visual rect (0,0)-(300,450) maps the
\* overlay (20,20,40,40) to (30,60,150,180).
C1_TranslateFollowsFormula ==
    Probed("translate") =>
        /\ probe[1].res[1] = C1_Expected(probe[1].args)
        /\ probe[1].args = ExampleTranslateArgs =>
              probe[1].res[1] = FRect(RInt(30), RInt(60), RInt(150), RInt(180))

C1_Witness == Probed("translate") /\ probe[1].args = ExampleTranslateArgs

\* the surviving original index i moves to the number of survivors below it
C10_NewIndex(i, deleted_set) == Cardinality({j \in 0..(i - 1) : j \notin deleted_set})

C10_Survivors(a) == {i \in DOMAIN a.original_rects : i < a.n /\ i \notin a.deleted_set}

C10_ExampleArgs ==
    [ n |-> 5, deleted_set |-> {1, 3},
      original_rects |-> [i \in 0..4 |-> RectOfPage(i)] ]

\* C10: deleting the pages of a set S re-indexes the crop rectangles: the entry
\* of every deleted index is dropped, the entry of every surviving index i moves
\* to the number of surviving indices below i with its rectangle unchanged;
\* deleting {1,3} of 5 pages with rects at 0..4 leaves the rects of the pages
\* 0, 2 and 4 at 0, 1 and 2.
C10_RemapReindexes ==
    Probed("remap") =>
        LET a == probe[1].args
            res == probe[1].res[1]
        IN  /\ DOMAIN res = {C10_NewIndex(i, a.deleted_set) : i \in C10_Survivors(a)}
            /\ \A i \in C10_Survivors(a) :
                  res[C10_NewIndex(i, a.deleted_set)] = a.original_rects[i]
            /\ a = C10_ExampleArgs =>
                  /\ DOMAIN res = {0, 1, 2}
                  /\ res[0] = RectOfPage(0)
                  /\ res[1] = RectOfPage(2)
                  /\ res[2] = RectOfPage(4)

C10_Witness == Probed("remap") /\ probe[1].args = C10_ExampleArgs

\* a step of the window that changed something and was made by the handler op
Step(op) == vars' # vars /\ last'.op = op

\* a step in which applyWhiteout or deleteSelectedPages got past its early
\* returns and entered its protected block, where pushUndo is called
PushStep ==
    /\ vars' # vars
    /\ \/ last'.op = "applyWhiteout"
       \/ /\ last'.op = "deleteSelectedPages"
          /\ last'.res \in {"deleted", "Failed to delete pages"}

C6_Pushed(stack, snapshot) ==
    IF Len(stack) = 10 THEN Append(Tail(stack), snapshot) ELSE Append(stack, snapshot)

\* C6: the undo stack never holds more than 10 snapshots, and a push appends
\* the snapshot of the current document as the newest entry, dropping the
\* oldest entry when the stack already held 10, so that the 10 most recent
\* snapshots stay in push order.
C6_UndoStackBounded ==
    /\ [](Len(undo_stack) <= 10)
    /\ [][PushStep => undo_stack' = C6_Pushed(undo_stack, pdf_doc[1])]_vars

\* a push onto a full stack has happened: the first snapshot after opening,
\* the untouched file, is gone
C6_Witness ==
    /\ Len(undo_stack) = 10
    /\ last.op \in {"applyWhiteout", "deleteSelectedPages"}
    /\ undo_stack[1] # File(MaxPages)

\* C7: undo is last-in-first-out and exact: every undo makes the newest
\* snapshot the document and removes exactly that snapshot; every mutation
\* leaves the document it started from as the newest snapshot, so that an undo
\* right after it restores that document (content and page count); no other
\* step but opening a file touches the stack or the document.
C7_UndoIsLifoAndExact ==
    [][ /\ Step("undo") =>
            /\ undo_stack # << >>
            /\ pdf_doc' = Some(undo_stack[Len(undo_stack)])
            /\ undo_stack' = SubSeq(undo_stack, 1, Len(undo_stack) - 1)
        /\ PushStep =>
            /\ undo_stack' # << >>
            /\ undo_stack'[Len(undo_stack')] = pdf_doc[1]
            /\ undo(Self').pdf_doc = pdf_doc
            /\ Len(undo(Self').pdf_doc[1]) = Len(pdf_doc[1])
        /\ (~Step("undo") /\ ~PushStep /\ ~Step("loadPDF")) =>
            UNCHANGED <<undo_stack, pdf_doc>>
      ]_vars

\* an undo after two mutations not yet undone: it restored a document that
\* differs from the one still on the stack
C7_Witness ==
    /\ last.op = "undo"
    /\ undo_stack # << >>
    /\ pdf_doc # Some(undo_stack[Len(undo_stack)])

\* C8: right after a successful undo there is no active crop, and a render
\* batch of the whole restored document is in flight that carries no crop
\* info, so that no page of it is rendered under a clip rectangle; this also
\* holds when a crop was active before the undo.
C8_UndoClearsCropAndRerenders ==
    (last.op = "undo" /\ last.res = "Undo successful.") =>
        /\ active_crop_info = None
        /\ pdf_doc # None
        /\ is_processing
        /\ pages_rendered = 0
        /\ images = [k \in 1..Len(pdf_doc[1]) |-> None]
        /\ workers # << >>
        /\ workers[Len(workers)] =
              Worker("render", pdf_doc[1], Len(pdf_doc[1]), None)
        /\ \A p \in 0..(Len(pdf_doc[1]) - 1) :
              RenderClip(workers[Len(workers)].pdf_bytes,
                         workers[Len(workers)].crop_info, p) = None

C8_Witness ==
    /\ last.op = "undo"
    /\ last.res = "Undo successful."
    /\ Len(pdf_doc[1]) = MaxPages

\* the handlers the claim C9 names as never touching the undo stack, and the
\* requests that are turned away
C9_Rejected ==
    \/ last'.op = "handleWhiteoutRequest"
    \/ /\ last'.op = "deleteSelectedPages"
       /\ last'.res \in {"No PDF is open.", "Please select pages to delete."}

Program(s) ==
    << s.pdf_doc, s.images, s.pages_rendered, s.view_mode, s.preview_page_num,
       s.is_processing, s.active_crop_info, s.undo_stack,
       s.show_crop_success_msg, s.show_whiteout_success_msg,
       s.single_cache, s.odd_cache, s.even_cache,
       s.single_sel, s.odd_sel, s.even_sel, s.shown, s.tool, s.thumbs,
       s.workers, s.crashed >>

C5_Warning ==
    [op |-> "handleWhiteoutRequest",
     res |-> "Cannot apply whiteout while a crop is active."]

\* C5 as stated: every whiteout request made while a crop is active (the
\* whiteout tool is on, the rectangle is drawn in a visible view of an open
\* document) is answered with the warning and changes nothing.
C5_AsStated ==
    \A rect \in UserRects, view \in Views :
        ( /\ Alive /\ tool = "whiteout" /\ Visible(Self, view)
          /\ pdf_doc # None /\ active_crop_info # None ) =>
            LET r == handleWhiteoutRequest(Self, rect, view)
            IN  /\ r.last = C5_Warning
                /\ Program(r) = Program(Self)

\* C5, amended: a whiteout request made while a crop is active changes
\* nothing (no fill is drawn, no snapshot pushed, no batch started, the crop
\* info kept); it is answered with the warning when no batch is in flight and
\* the document has pages, and dropped without a message otherwise.  No step
\* taken while a crop is active is a step of applyWhiteout.
C5_CropActiveWhiteoutChangesNothing ==
    /\ [](\A rect \in UserRects, view \in Views :
            active_crop_info # None =>
                LET r == handleWhiteoutRequest(Self, rect, view)
                IN  /\ Program(r) = Program(Self)
                    /\ IF ~is_processing /\ DocTruthy(Self)
                       THEN r.last = C5_Warning
                       ELSE r = Self)
    /\ [][ /\ (active_crop_info # None /\ vars' # vars) => last'.op # "applyWhiteout"
           /\ Step("handleWhiteoutRequest") =>
                /\ active_crop_info # None
                /\ ~is_processing
                /\ Program(Self') = Program(Self)
         ]_vars

\* the warning has just been shown for a request made with a crop active
C5_Witness ==
    /\ last = C5_Warning
    /\ active_crop_info # None
    /\ tool = "whiteout"

\* the documents and crop infos of the state: the window's own, and those the
\* workers in flight were started with
C2_Pairs ==
    (IF pdf_doc # None /\ active_crop_info # None
     THEN {<<pdf_doc[1], active_crop_info>>} ELSE {})
    \cup {<<workers[k].pdf_bytes, workers[k].crop_info>> :
            k \in {j \in 1..Len(workers) : workers[j].crop_info # None}}

\* C2: for every document and crop info of a reachable state, and every page
\* that has a crop rectangle (and a size in image_dims), the clip the render
\* batch gives that page's task is the crop box the save worker sets on that
\* page; a page without a rectangle gets neither; the file a save has just
\* written carries, on every page with a rectangle, the render clip.
C2_RenderClipIsSaveCropBox ==
    /\ \A pr \in C2_Pairs :
          LET pdf_bytes == pr[1]
              ci == pr[2][1]
          IN  \A p \in 0..(Len(pdf_bytes) - 1) :
                 IF p \in SavePagesWithRect(pdf_bytes, ci)
                 THEN p < Len(ci.image_dims) =>
                         RenderClip(pdf_bytes, pr[2], p) = Some(SaveCropBox(pdf_bytes, ci, p))
                 ELSE RenderClip(pdf_bytes, pr[2], p) = None
    /\ saved # None =>
          \E k \in 1..Len(workers) :
              /\ workers[k].kind = "save"
              /\ saved[1].pages = workers[k].pdf_bytes
              /\ \A p \in DOMAIN saved[1].cropbox :
                    /\ workers[k].crop_info # None
                    /\ p < Len(workers[k].crop_info[1].image_dims)
                    /\ Some(saved[1].cropbox[p]) =
                          RenderClip(workers[k].pdf_bytes, workers[k].crop_info, p)

\* a cropped document of two pages has just been saved with a crop box on
\* each page, in split mode
C2_Witness ==
    /\ saved # None
    /\ Len(saved[1].pages) = MaxPages
    /\ DOMAIN saved[1].cropbox = 0..(MaxPages - 1)
    /\ active_crop_info # None
    /\ active_crop_info[1].view_mode = "odd_even"

C3_Greatest(S) == CHOOSE m \in S : \A x \in S : x <= m

C3_Valid(imgs) == {k \in 1..Len(imgs) : imgs[k] # None}

\* (max width, max height) over all the rasters that are present
C3_AllMax(imgs) ==
    << C3_Greatest({imgs[k][1][1] : k \in C3_Valid(imgs)}),
       C3_Greatest({imgs[k][1][2] : k \in C3_Valid(imgs)}) >>

C3_DimsMax(dims) ==
    << C3_Greatest({dims[k][1] : k \in 1..Len(dims)}),
       C3_Greatest({dims[k][2] : k \in 1..Len(dims)}) >>

\* C3: in split mode the odd and the even composite on display have the same
\* size, (max width, max height) over all the rasters present, and the crop
\* transforms of the render and the save worker use, for both parities, the
\* maximum over all the sizes of the crop info.
C3_AsStated ==
    /\ (shown = "split" /\ odd_cache # None /\ even_cache # None) =>
          /\ <<odd_cache[1].w, odd_cache[1].h>> = <<even_cache[1].w, even_cache[1].h>>
          /\ <<odd_cache[1].w, odd_cache[1].h>> = C3_AllMax(images)
    /\ \A pr \in C2_Pairs :
          LET ci == pr[2][1]
          IN  (ci.view_mode = "odd_even" /\ Len(ci.image_dims) > 0) =>
                /\ RenderCanvasDims(ci).max_odd_dims = C3_DimsMax(ci.image_dims)
                /\ RenderCanvasDims(ci).max_even_dims = C3_DimsMax(ci.image_dims)
                /\ SaveCanvasDims(ci).max_odd_dims = C3_DimsMax(ci.image_dims)
                /\ SaveCanvasDims(ci).max_even_dims = C3_DimsMax(ci.image_dims)

C4_Inside(r, box) ==
    /\ RLe(box.x0, r.x0) /\ RLe(r.x0, r.x1) /\ RLe(r.x1, box.x1)
    /\ RLe(box.y0, r.y0) /\ RLe(r.y0, r.y1) /\ RLe(r.y1, box.y1)

\* the page's visual bounding box, in the physical coordinates of its fills,
\* clips and crop boxes
C4_Box(page) == Derotate(page, PageRect(page))

\* C4: every rectangle used as a render clip, as a saved crop box or as a
\* whiteout fill lies inside the visual bounding box of its page.
C4_AsStated ==
    /\ pdf_doc # None =>
          \A k \in 1..Len(pdf_doc[1]) : \A f \in 1..Len(pdf_doc[1][k].fills) :
              C4_Inside(pdf_doc[1][k].fills[f], C4_Box(pdf_doc[1][k]))
    /\ \A k \in 1..Len(workers) :
          (workers[k].kind = "render" /\ workers[k].crop_info # None) =>
              \A p \in SavePagesWithRect(workers[k].pdf_bytes, workers[k].crop_info[1]) :
                  p < Len(workers[k].crop_info[1].image_dims) =>
                      C4_Inside(RenderClip(workers[k].pdf_bytes,
                                           workers[k].crop_info, p)[1],
                                C4_Box(workers[k].pdf_bytes[p + 1]))
    /\ saved # None =>
          \A p \in DOMAIN saved[1].cropbox :
              C4_Inside(saved[1].cropbox[p], C4_Box(saved[1].pages[p + 1]))

\* C11: whenever a crop is active, its image_dims has exactly one entry per
\* page of the document (the size of that page's raster when the crop was
\* committed), also when a raster was absent at that moment.
C11_AsStated ==
    (pdf_doc # None /\ active_crop_info # None) =>
        Len(active_crop_info[1].image_dims) = Len(pdf_doc[1])

\* C12: in every reachable state the keys of the active crop's rectangle map
\* are page indices of the current document: 0 <= key < page count.
C12_CropKeysAreValidIndices ==
    active_crop_info # None =>
        /\ pdf_doc # None
        /\ \A key \in DOMAIN active_crop_info[1].rects :
              0 <= key /\ key < Len(pdf_doc[1])

\* a page below a cropped page has just been deleted with the crop active:
\* the rectangle of the page that moved down is still in the map
C12_Witness ==
    /\ last.op = "deleteSelectedPages"
    /\ last.res = "deleted"
    /\ active_crop_info # None
    /\ pdf_doc[1] # << >>
    /\ pdf_doc[1][1].id # 1
    /\ 0 \in DOMAIN active_crop_info[1].rects

\* the entries of seq whose 0-based index is not in S, in their order
RECURSIVE C13_Without(_, _, _)
C13_Without(seq, S, i) ==
    IF i >= Len(seq) THEN << >>
    ELSE (IF i \in S THEN << >> ELSE <<seq[i + 1]>>) \o C13_Without(seq, S, i + 1)

\* Delete Pages on the checked set S of an open document
C13_Delete(S) ==
    /\ S # {}
    /\ S \subseteq 0..(thumbs - 1)
    /\ DocTruthy(Self)
    /\ Becomes(deleteSelectedPages(Self, S))

\* C13: deleting a non-empty set S of page indices of the document leaves
\* the document as the original page sequence without the pages of S, the
\* others in their order, and the raster list reduced in the same way.
C13_AsStated ==
    [][\A S \in SUBSET (0..(MaxPages - 1)) :
          (C13_Delete(S) /\ S \subseteq 0..(Len(pdf_doc[1]) - 1)) =>
              /\ pdf_doc' = Some(C13_Without(pdf_doc[1], S, 0))
              /\ images' = C13_Without(images, S, 0)]_vars

\* no selection for the applicable view
C14_NoSelection ==
    IF view_mode = "all" THEN single_sel = None
    ELSE odd_sel = None /\ even_sel = None

C14_Warning ==
    [op |-> "cropSelection",
     res |-> IF view_mode = "all" THEN "Please make a selection first."
             ELSE "Please make at least one selection."]

\* C14 as stated: whenever Crop is clicked with no selection for the
\* applicable view, a warning is shown and no state changes.
C14_AsStated ==
    (Alive /\ ButtonsEnabled /\ tool # "whiteout" /\ C14_NoSelection) =>
        LET r == cropSelection(Self)
        IN  /\ r.last = C14_Warning
            /\ Program(r) = Program(Self)

\* C14, amended: committing a crop with no selection for the applicable view
\* changes no state (crop info, document, undo stack, busy flag, workers in
\* flight); the warning is shown when a document with pages is open and no
\* batch is in flight, and the request is dropped without a message
\* otherwise.  Every step that shows the warning is such a step.
C14_CropWithoutSelectionChangesNothing ==
    /\ [](C14_NoSelection =>
            LET r == cropSelection(Self)
            IN  /\ Program(r) = Program(Self)
                /\ IF ~is_processing /\ DocTruthy(Self)
                   THEN r.last = C14_Warning
                   ELSE r = Self)
    /\ [][ (Step("cropSelection") /\ last'.res # "committed") =>
                /\ C14_NoSelection
                /\ last' = C14_Warning
                /\ Program(Self') = Program(Self)
         ]_vars

\* the warning has just been shown on an open document
C14_Witness ==
    /\ last = C14_Warning
    /\ C14_NoSelection
    /\ DocTruthy(Self)

C15_Warnings == {"No PDF is open.", "Please select pages to delete."}

\* C15: Delete Pages with no page checked shows a warning and changes
\* nothing: document, rasters, crop info, composite caches and undo stack
\* stay as they are (no snapshot is pushed).
C15_EmptyDeleteChangesNothing ==
    /\ [](LET r == deleteSelectedPages(Self, {})
          IN  /\ r.last.op = "deleteSelectedPages"
              /\ r.last.res \in C15_Warnings
              /\ Program(r) = Program(Self))
    /\ [][ (Step("deleteSelectedPages") /\ last'.res \in C15_Warnings) =>
                Program(Self') = Program(Self)
         ]_vars

\* Delete Pages has just been clicked with nothing checked, on a document
\* with thumbnails and an active crop that it could have touched
C15_Witness ==
    /\ last.op = "deleteSelectedPages"
    /\ last.res = "Please select pages to delete."
    /\ active_crop_info # None
    /\ thumbs > 0

\* C16: Reset Crop with an active crop clears the crop info and starts a
\* render batch of all pages of the unchanged document that carries no crop
\* info (no clip rectangles); Reset Crop with no active crop is reported and
\* changes no state, so it starts no batch.
C16_ResetCropClearsAndRerenders ==
    [][Step("resetCrop") =>
          IF active_crop_info # None
          THEN /\ last'.res = "Crop has been reset."
               /\ active_crop_info' = None
               /\ pdf_doc' = pdf_doc
               /\ undo_stack' = undo_stack
               /\ DocTruthy(Self) =>
                    /\ is_processing'
                    /\ pages_rendered' = 0
                    /\ images' = [i \in 1..Len(pdf_doc[1]) |-> None]
                    /\ workers' = Append(workers,
                                         Worker("render", pdf_doc[1], Len(pdf_doc[1]), None))
          ELSE /\ last'.res = "No crop is currently active."
               /\ Program(Self') = Program(Self)
      ]_vars

\* a crop has just been reset and its render batch is in flight
C16_Witness ==
    /\ last.op = "resetCrop"
    /\ last.res = "Crop has been reset."
    /\ active_crop_info = None
    /\ Len(workers) = 1
    /\ workers[1].crop_info = None

\* the steps of a render batch: a page delivered, an error shown, the end
C17_BatchStep ==
    \/ Step("pageRendered")
    \/ Step("processingError") /\ last'.res = "render"
    \/ Step("processingFinished")

\* C17: committing a crop and the steps of the render batch it starts leave
\* the in-memory document as it is (page count, content, geometry); the
\* commit changes the crop info and the rasters and pushes no snapshot, and a
\* file with crop boxes is written by no such step.
C17_CropLeavesDocument ==
    [][ /\ Step("cropSelection") =>
              /\ pdf_doc' = pdf_doc
              /\ undo_stack' = undo_stack
              /\ saved' = None
        /\ (C17_BatchStep /\ active_crop_info # None) =>
              /\ pdf_doc' = pdf_doc
              /\ undo_stack' = undo_stack
              /\ active_crop_info' = active_crop_info
              /\ saved' = None
      ]_vars

\* the render batch of a committed crop has delivered every page and ended,
\* and the document is still a file as it was opened
C17_Witness ==
    /\ last.op = "processingFinished"
    /\ last.res = "PDF cropped successfully!"
    /\ active_crop_info # None
    /\ pdf_doc # None
    /\ pdf_doc[1] \in Files
    /\ \A i \in 1..Len(images) : images[i] # None

\* the steps of a save: its start, the worker's result or error, its end
C18_SaveEnds ==
    /\ Step("processingFinished")
    /\ \E k \in 1..Len(workers) :
          workers[k].kind = "save" /\ workers' = RemoveAt(workers, k)

C18_SaveStep ==
    \/ Step("savePDF")
    \/ Step("saveFinished")
    \/ Step("processingError") /\ last'.res = "save"
    \/ C18_SaveEnds

\* C18: no step of a save, successful or failed, changes the in-memory
\* document, the crop info, the undo stack, the rasters or the preview
\* selection; when the save ends the window is no longer busy.
C18_SaveLeavesEditingState ==
    [][ /\ C18_SaveStep =>
              /\ pdf_doc' = pdf_doc
              /\ active_crop_info' = active_crop_info
              /\ undo_stack' = undo_stack
              /\ images' = images
              /\ preview_page_num' = preview_page_num
        /\ C18_SaveEnds => ~is_processing'
      ]_vars

\* a save of a document with an undo snapshot and an active crop has written
\* its file, with crop boxes, and reported success
C18_Witness ==
    /\ last.op = "saveFinished"
    /\ saved # None
    /\ DOMAIN saved[1].cropbox # {}
    /\ active_crop_info # None
    /\ undo_stack # << >>

\* the target page set of a whiteout requested from a view
C19_Targets(view) ==
    LET n == Len(pdf_doc[1])
    IN  IF preview_page_num # None THEN {preview_page_num[1]}
        ELSE CASE view = "single" -> 0..(n - 1)
               [] view = "odd" -> {p \in 0..(n - 1) : p % 2 = 0}
               [] view = "even" -> {p \in 0..(n - 1) : p % 2 = 1}

\* the pages of the open document that differ in state r
C19_Modified(r) ==
    {p \in 0..(Len(pdf_doc[1]) - 1) : r.pdf_doc[1][p + 1] # pdf_doc[1][p + 1]}

\* a whiteout rectangle can be drawn in the view and is not refused
C19_Requested(view) ==
    /\ Alive /\ tool = "whiteout" /\ Visible(Self, view)
    /\ DocTruthy(Self) /\ ~is_processing /\ active_crop_info = None

C19_Drawn == [op |-> "applyWhiteout", res |-> "drawn"]

C19_NoRaster == \A i \in 1..Len(images) : images[i] = None

C20_Reset(r, file, before) ==
    /\ r.pdf_doc = Some(file)
    /\ r.active_crop_info = None
    /\ r.undo_stack = << >>
    /\ r.preview_page_num = None
    /\ r.is_processing
    /\ r.pages_rendered = 0
    /\ r.images = [i \in 1..Len(file) |-> None]
    /\ r.workers = Append(before, Worker("render", file, Len(file), None))

\* C20: opening a file (from the dialog, by a drop, or as the initial input
\* path, all through loadPDF) leaves no active crop, an empty undo stack and
\* no previewed page, and starts a render batch of the whole new document.
C20_OpenResetsEditingState ==
    /\ [](\A file \in Files : C20_Reset(loadPDF(Self, file), file, workers))
    /\ [][Step("loadPDF") =>
             /\ pdf_doc' # None
             /\ C20_Reset(Self', pdf_doc'[1], workers)]_vars

\* a one-page file has just been opened over a two-page document whose
\* thumbnails are still in the sidebar
C20_Witness ==
    /\ last.op = "loadPDF"
    /\ Len(pdf_doc[1]) = 1
    /\ thumbs = 2
    /\ Len(workers) = 1
    /\ undo_stack = << >>

\* C21: at most one batch operation (render batch or save) is in flight at
\* any time: no action of the user starts a worker while another is running.
C21_AsStated == Len(workers) <= 1

\* a render worker is running
C22_RenderInFlight == \E k \in 1..Len(workers) : workers[k].kind = "render"

\* a whiteout, a deletion, an undo or an open changes the document or the rasters
C22_Writes ==
    /\ \/ Step("applyWhiteout") \/ Step("deleteSelectedPages")
       \/ Step("undo") \/ Step("loadPDF")
    /\ pdf_doc' # pdf_doc \/ images' # images

\* C22: whenever a whiteout, a page deletion, an undo or an open changes the
\* document or the raster list no render batch is in flight, and the busy
\* flag is not cleared while a worker is still running.
C22_AsStated ==
    [][ /\ C22_Writes => ~C22_RenderInFlight
        /\ (is_processing /\ ~is_processing') => workers' = << >>
      ]_vars

\* worker k, not the newest batch, delivers a page result in this step
C23_StaleResult(k) ==
    /\ Step("pageRendered")
    /\ k < Len(workers)
    /\ Len(workers') = Len(workers)
    /\ workers'[k].next # workers[k].next

\* C23: a page result delivered by a batch older than the newest one is
\* ignored: it is not stored in the raster list, not counted as a rendered
\* page, and does not index the raster list out of range.
C23_AsStated ==
    [][\A k \in 1..Len(workers) :
          C23_StaleResult(k) =>
              /\ images' = images
              /\ pages_rendered' = pages_rendered
              /\ ~crashed']_vars

\* the rasterization of the next page of render worker k fails in this step,
\* with pages of the batch still to come
C25_PageFails(k) ==
    /\ Step("processingError")
    /\ last'.res = "render"
    /\ Len(workers') = Len(workers)
    /\ workers'[k] # workers[k]
    /\ ~RenderSetupRaises(workers[k])
    /\ workers[k].next + 1 < workers[k].num_pages

\* C25: when the rasterization of one page of a render batch fails, the
\* batch goes on: the worker still has the other pages to render and deliver.
C25_AsStated ==
    [][\A k \in 1..Len(workers) :
          C25_PageFails(k) => ~WorkerDone(workers'[k])]_vars

\* the thumbnails and the composite of the visible view are those of the
\* raster list, just computed
C24_Recomputed ==
    /\ <<thumbs', single_cache', odd_cache', even_cache'>> #
          <<thumbs, single_cache, odd_cache, even_cache>>

C24_AllDelivered == \A i \in 1..Len(images') : images'[i] # None

\* C24: a page result triggers the recomputation of thumbnails and
\* composites only when it completes its batch (every raster of the list has
\* been delivered), and the result that completes the batch does trigger it.
C24_AsStated ==
    [][Step("pageRendered") =>
          /\ C24_Recomputed => C24_AllDelivered
          /\ (C24_AllDelivered /\ ~crashed') => thumbs' = Len(images')
      ]_vars

(***************************************************************************)
(* The compositor applied to raster lists of every shape.                  *)
(***************************************************************************)
\* pages of the largest raster list that is composited
MaxCompositePages == 4

\* raster sizes: landscape, portrait, square
RasterSizes == {<<6, 3>>, <<3, 6>>, <<4, 4>>}

RECURSIVE RasterLists(_)
RasterLists(n) ==
    IF n = 0 THEN {<< >>}
    ELSE {Append(l, r) : l \in RasterLists(n - 1),
                         r \in {None} \cup {Some(d) : d \in RasterSizes}}

CompositeArgs ==
    UNION {[ images : RasterLists(n), view_mode : {"all", "odd_even"} ]
           : n \in 1..MaxCompositePages}

InitComposite ==
    /\ InitWindow /\ InitCursors
    /\ probe \in {Probe("composite", a) : a \in CompositeArgs}

\* updateOverlay on a window that holds the raster list and no cached composite
ApplyComposite ==
    /\ probe # None
    /\ probe[1].fn = "composite"
    /\ probe[1].res = None
    /\ LET a == probe[1].args
       IN  probe' = Some([probe[1] EXCEPT !.res =
                           Some(updateOverlay([InitialWindow EXCEPT
                                                  !.images = a.images,
                                                  !.view_mode = a.view_mode]))])
    /\ UNCHANGED window

SpecComposite == InitComposite /\ [][ApplyComposite]_vars

\* the pages (0-based) of a parity group whose raster is present
C26_Group(imgs, first, step) ==
    {p \in 0..(Len(imgs) - 1) : p >= first /\ (p - first) % step = 0 /\ imgs[p + 1] # None}

\* the k-th smallest element of S
C26_Nth(S, k) == CHOOSE p \in S : Cardinality({q \in S : q < p}) = k - 1

\* cache is the composite of the group as the claim describes it: one layer
\* per present raster in increasing page order, the first opaque and the later
\* ones at opacity 0.2, each centred on the canvas
C26_IsCompositeOf(cache, imgs, group) ==
    IF group = {} THEN cache = None
    ELSE /\ cache # None
         /\ Len(cache[1].layers) = Cardinality(group)
         /\ \A k \in 1..Cardinality(group) :
               LET layer == cache[1].layers[k]
                   p == C26_Nth(group, k)
                   dims == imgs[p + 1][1]
               IN  /\ layer.page = p
                   /\ layer.opacity = (IF k = 1 THEN 100 ELSE 20)
                   /\ 2 * layer.x <= cache[1].w - dims[1]
                   /\ cache[1].w - dims[1] < 2 * layer.x + 2
                   /\ 2 * layer.y <= cache[1].h - dims[2]
                   /\ cache[1].h - dims[2] < 2 * layer.y + 2

\* C26: each composite (all pages, odd group, even group) skips the absent
\* rasters, draws the first present raster of its group at opacity 1.0 and
\* every later one at opacity 0.2 in increasing page order, each at offset
\* floor((canvas - page) / 2) on both axes.
C26_CompositeLayers ==
    Probed("composite") =>
        LET a == probe[1].args
            r == probe[1].res[1]
        IN  IF a.view_mode = "all"
            THEN C26_IsCompositeOf(r.single_cache, a.images, C26_Group(a.images, 0, 1))
            ELSE /\ C26_IsCompositeOf(r.odd_cache, a.images, C26_Group(a.images, 0, 2))
                 /\ C26_IsCompositeOf(r.even_cache, a.images, C26_Group(a.images, 1, 2))

\* the all-pages composite of four pages of different sizes, the first absent
C26_Witness ==
    /\ Probed("composite")
    /\ probe[1].args.view_mode = "all"
    /\ probe[1].args.images =
          <<None, Some(<<6, 3>>), Some(<<3, 6>>), Some(<<4, 4>>)>>
    /\ Len(probe[1].res[1].single_cache[1].layers) = 3

\* the centring offsets of the page on the all-pages canvas
C27_Offset(a) ==
    << (a.max_dims[1] - a.page_dims[1]) \div 2, (a.max_dims[2] - a.page_dims[2]) \div 2 >>

\* a valid input in all-pages mode: a rectangle with positive width and
\* height on the canvas, a page with pixels that fits the canvas, a visual
\* rect with positive width and height
C27_Valid(a) ==
    /\ a.view_mode = "all"
    /\ QRectIsValid(a.scene_rect)
    /\ a.page_dims[1] > 0 /\ a.page_dims[2] > 0
    /\ a.page_dims[1] <= a.max_dims[1] /\ a.page_dims[2] <= a.max_dims[2]
    /\ 0 <= a.scene_rect.x /\ a.scene_rect.x + a.scene_rect.w <= a.max_dims[1]
    /\ 0 <= a.scene_rect.y /\ a.scene_rect.y + a.scene_rect.h <= a.max_dims[2]
    /\ RLt(a.pdf_page_rect.x0, a.pdf_page_rect.x1)
    /\ RLt(a.pdf_page_rect.y0, a.pdf_page_rect.y1)

\* the rectangle lies on the area the page covers on the canvas
C27_OnPage(a) ==
    /\ C27_Offset(a)[1] <= a.scene_rect.x
    /\ a.scene_rect.x + a.scene_rect.w <= C27_Offset(a)[1] + a.page_dims[1]
    /\ C27_Offset(a)[2] <= a.scene_rect.y
    /\ a.scene_rect.y + a.scene_rect.h <= C27_Offset(a)[2] + a.page_dims[2]

\* 1 / q for a positive rational
C27_Inverse(q) == Rat(q[2], q[1])

\* the inverse map: PDF space back to the overlay, by the inverse scale and
\* the centring offset
C27_Back(pdf, a) ==
    LET ix == RMul(RInt(a.page_dims[1]), C27_Inverse(RectWidth(a.pdf_page_rect)))
        iy == RMul(RInt(a.page_dims[2]), C27_Inverse(RectHeight(a.pdf_page_rect)))
    IN  [ x |-> RAdd(RMul(RSub(pdf.x0, a.pdf_page_rect.x0), ix), RInt(C27_Offset(a)[1])),
          y |-> RAdd(RMul(RSub(pdf.y0, a.pdf_page_rect.y0), iy), RInt(C27_Offset(a)[2])),
          w |-> RMul(RSub(pdf.x1, pdf.x0), ix),
          h |-> RMul(RSub(pdf.y1, pdf.y0), iy) ]

C27_RoundTrips(a, res) ==
    C27_Back(res, a) = [ x |-> RInt(a.scene_rect.x), y |-> RInt(a.scene_rect.y),
                         w |-> RInt(a.scene_rect.w), h |-> RInt(a.scene_rect.h) ]

\* C27 as stated: in all-pages mode, for every valid overlay rectangle, page
\* size and canvas size, mapping to PDF space and back reproduces the rectangle.
C27_AsStated ==
    (Probed("translate") /\ C27_Valid(probe[1].args)) =>
        C27_RoundTrips(probe[1].args, probe[1].res[1])

\* C27, amended: the round trip reproduces every valid overlay rectangle that
\* lies on the area the page covers on the canvas.
C27_RoundTripOnPage ==
    (Probed("translate") /\ C27_Valid(probe[1].args) /\ C27_OnPage(probe[1].args)) =>
        C27_RoundTrips(probe[1].args, probe[1].res[1])

\* a rectangle on a page that is smaller than the canvas and has a visual
\* rect that does not start at the origin
C27_Witness ==
    /\ Probed("translate")
    /\ C27_Valid(probe[1].args)
    /\ C27_OnPage(probe[1].args)
    /\ C27_Offset(probe[1].args)[1] > 0
    /\ probe[1].args.pdf_page_rect.x0 # RInt(0)

(***************************************************************************)
(* Failing opens: fitz.open raises in loadPDF (a file that is no PDF) or   *)
(* in undo.  Both handlers close the current document before they open the *)
(* new one.  What the handlers do with a closed document afterwards is not *)
(* followed: the failure is the last step.                                 *)
(***************************************************************************)
\* self.pdf_doc.close(): the object stays in self.pdf_doc, closed
Closed(doc) == <<doc[1], "closed">>

IsClosed(doc) == Len(doc) = 2

\* loadPDF when fitz.open(pdf_path) raises: the except clause
loadPDF_raises(s) ==
    LET s1 == IF DocTruthy(s) THEN [s EXCEPT !.pdf_doc = Closed(@)] ELSE s
    IN  Did(setUIProcessing(s1, FALSE), "loadPDF", "Failed to load PDF")

\* undo when fitz.open("pdf", pdf_bytes) raises: the except clause
undo_raises(s) ==
    IF s.undo_stack = << >> THEN s
    ELSE LET s1 == setUIProcessing(s, TRUE)
             s2 == [s1 EXCEPT !.undo_stack = SubSeq(@, 1, Len(@) - 1)]
             s3 == IF DocTruthy(s2) THEN [s2 EXCEPT !.pdf_doc = Closed(@)] ELSE s2
         IN  Did(setUIProcessing(s3, FALSE), "undo", "Failed to undo")

OpenFails ==
    /\ Alive /\ MenuEnabled
    /\ Becomes(loadPDF_raises(Self))

UndoFails ==
    /\ Alive /\ ButtonsEnabled /\ undo_stack # << >>
    /\ Becomes(undo_raises(Self))

NextFail ==
    \/ ~IsClosed(pdf_doc) /\ Next
    \/ ~IsClosed(pdf_doc) /\ OpenFails
    \/ ~IsClosed(pdf_doc) /\ UndoFails

SpecFail == Init /\ [][NextFail]_vars

\* an open or an undo has failed in this step
C28_Failed ==
    \/ Step("loadPDF") /\ last'.res = "Failed to load PDF"
    \/ Step("undo") /\ last'.res = "Failed to undo"

\* C28: a failed open and a failed undo leave the document state as it was:
\* the document that was loaded is still open, and crop info, undo stack
\* and preview selection are unchanged.
C28_AsStated ==
    [][C28_Failed =>
          /\ pdf_doc' = pdf_doc
          /\ active_crop_info' = active_crop_info
          /\ undo_stack' = undo_stack
          /\ preview_page_num' = preview_page_num]_vars

\* the indices of the pages this step removed from the document
C29_Committed ==
    {i \in 0..(Len(pdf_doc[1]) - 1) :
        \A j \in 1..Len(pdf_doc'[1]) : pdf_doc'[1][j].id # pdf_doc[1][i + 1].id}

\* a delete that failed after it had removed at least one page
C29_FailedPartway ==
    /\ Step("deleteSelectedPages")
    /\ last'.res = "Failed to delete pages"
    /\ Len(pdf_doc'[1]) < Len(pdf_doc[1])

\* C29: when a delete fails after at least one page was removed, the raster
\* list, the crop rectangles and the crop's dimension list are those of the
\* deletions that were committed: the entries of the removed pages dropped,
\* the others moved down, nothing else.
C29_AsStated ==
    [][C29_FailedPartway =>
          /\ images' = C13_Without(images, C29_Committed, 0)
          /\ active_crop_info # None =>
                /\ active_crop_info' # None
                /\ active_crop_info'[1].image_dims =
                      C13_Without(active_crop_info[1].image_dims, C29_Committed, 0)
                /\ LET rects == active_crop_info[1].rects
                       kept == DOMAIN rects \ C29_Committed
                   IN  /\ DOMAIN active_crop_info'[1].rects =
                              {C10_NewIndex(i, C29_Committed) : i \in kept}
                       /\ \A i \in kept :
                             active_crop_info'[1].rects[C10_NewIndex(i, C29_Committed)]
                                = rects[i]
      ]_vars

\* cache is absent, or it is what the compositor makes of the rasters of the
\* group (idxs, 1-based) as the raster list is now
C30_Fresh(cache, idxs) ==
    cache # None =>
        LET valid_images == ValidIdx(images, Indices(Len(images)))
            group == ValidIdx(images, idxs)
        IN  /\ Len(group) > 0
            /\ cache = Some(Composite(images, group,
                                      MaxWidthOf(images, valid_images),
                                      MaxHeightOf(images, valid_images)))

\* C30: a cached composite (all pages, odd group, even group) that is
\* present is the composite of the current raster list.
C30_AsStated ==
    /\ C30_Fresh(single_cache, Indices(Len(images)))
    /\ C30_Fresh(odd_cache, OddIdx(Len(images)))
    /\ C30_Fresh(even_cache, EvenIdx(Len(images)))

\* the transform with the page's own raster as the canvas: no centring offset
C31_ZeroOffset(rect, page_dims, page) ==
    translate_rect_to_pdf_coords(rect, page_dims, PageRect(page), 0, "all",
                                 page_dims, page_dims, page_dims)

C31_ClampTo(r, box) ==
    FRect(RMax(box.x0, RMin(r.x0, box.x1)), RMax(box.y0, RMin(r.y0, box.y1)),
          RMax(box.x0, RMin(r.x1, box.x1)), RMax(box.y0, RMin(r.y1, box.y1)))

\* the previewed page exists and its raster is shown
C31_Previewing ==
    /\ preview_page_num # None
    /\ pdf_doc # None
    /\ preview_page_num[1] < Len(pdf_doc[1])
    /\ preview_page_num[1] < Len(images)
    /\ images[preview_page_num[1] + 1] # None

\* a whiteout drawn from the preview: the part of the new fill that lies on the
\* page is the zero-offset transform of the drawn rectangle
C31_WhiteoutFromPreview ==
    (Step("applyWhiteout") /\ last'.res = "drawn") =>
        LET p == preview_page_num[1]
            page == pdf_doc[1][p + 1]
            fills == pdf_doc'[1][p + 1].fills
        IN  /\ Len(fills) = Len(page.fills) + 1
            /\ \E rect \in UserRects :
                  C31_ClampTo(fills[Len(fills)], Derotate(page, PageRect(page)))
                      = Derotate(page, C31_ZeroOffset(rect, images[p + 1][1], page))

\* a crop committed from the preview with a rectangle selected on the previewed
\* page: the clip of that page in the batch the commit starts is the
\* zero-offset transform of the selection
C31_CropFromPreview ==
    (Step("cropSelection") /\ last'.res = "committed" /\ single_sel # None) =>
        LET p == preview_page_num[1]
            w == workers'[Len(workers')]
        IN  RenderVisualClip(w.pdf_bytes, w.crop_info, p)
                = Some(C31_ZeroOffset(single_sel[1], images[p + 1][1], pdf_doc[1][p + 1]))

\* C31 as stated: while a single page is previewed, every edit made from the
\* preview (a whiteout, a crop commit) transforms the rectangle drawn on the
\* previewed page with the page's own raster as canvas, that is without any
\* centring offset, so that the region edited on the page is the region selected.
C31_AsStated ==
    [][C31_Previewing => (C31_WhiteoutFromPreview /\ C31_CropFromPreview)]_vars

(***************************************************************************)
(* The thread pool runs every worker it was handed, and the event loop     *)
(* delivers every signal a worker emitted: a worker that can emit a result *)
(* or its finished signal does so in the end.                              *)
(***************************************************************************)
\* RenderResult can be taken: ENABLED <<RenderResult>>_vars
RenderPending ==
    /\ Alive
    /\ \E k \in 1..Len(workers) :
          workers[k].kind = "render" /\ ~WorkerDone(workers[k]) /\ ~RenderSetupRaises(workers[k])

\* weak fairness of WorkerFinished and of RenderResult; the latter is written
\* out as "infinitely often not enabled, or infinitely often taken", with the
\* enabling condition and the step (the only one that ends in pageRendered)
\* given directly
FairWorkers ==
    /\ WF_vars(WorkerFinished)
    /\ ([]<>(~RenderPending) \/ []<><<last'.op = "pageRendered">>_vars)

SpecDropFair == SpecDrop /\ FairWorkers

\* C32 as stated: whenever the busy flag is set (a render batch or a save was
\* started), the worker's finished signal arrives and the busy flag is false
\* again later, under fair scheduling of the workers.
C32_AsStated == is_processing ~> ~is_processing

\* the pages of one group: parity 0 is the odd group (page numbers 0, 2, ...)
C33_GroupPages(n, parity) == {p \in 0..(n - 1) : p % 2 = parity}

\* a commit in the split mode with a selection in one group only
C33_OneGroupCommit ==
    /\ Step("cropSelection")
    /\ last'.res = "committed"
    /\ view_mode = "odd_even"
    /\ (odd_sel = None) # (even_sel = None)

\* C33: in the odd/even mode a crop committed with a selection in one group
\* only gives rectangles to the page numbers of that group and to no other;
\* the batch the commit starts has no clip for the pages of the other group, a
\* page without a rectangle is rendered at its full size, and a save gives a
\* crop box to no page without a rectangle.
C33_OneGroupCropLeavesOtherGroup ==
    [][ /\ C33_OneGroupCommit =>
            LET n == Len(pdf_doc[1])
                mine == C33_GroupPages(n, IF odd_sel # None THEN 0 ELSE 1)
                ci == active_crop_info'[1]
                w == workers'[Len(workers')]
            IN  /\ DOMAIN ci.rects = mine
                /\ \A p \in mine :
                      ci.rects[p] = IF odd_sel # None THEN odd_sel[1] ELSE even_sel[1]
                /\ w.kind = "render" /\ w.crop_info = active_crop_info'
                /\ \A p \in (0..(n - 1)) \ mine :
                      RenderClip(w.pdf_bytes, w.crop_info, p) = None
                /\ SavePagesWithRect(pdf_doc'[1], ci) = mine
        /\ \A k \in 1..Len(workers) :
              ( /\ Step("pageRendered")
                /\ Len(workers') = Len(workers)
                /\ workers'[k].next # workers[k].next
                /\ workers[k].crop_info # None
                /\ workers[k].next \notin DOMAIN workers[k].crop_info[1].rects ) =>
                    images'[workers[k].next + 1] =
                        Some(PixmapDims(workers[k].pdf_bytes[workers[k].next + 1], None))
        /\ (Step("saveFinished") /\ workers[1].crop_info # None) =>
              DOMAIN saved'[1].cropbox \subseteq DOMAIN workers[1].crop_info[1].rects
      ]_vars

\* a document of two pages was cropped with a selection in the even view only,
\* rendered and saved: the file has a crop box on page number 1 alone, and the
\* raster of page number 0 has its full size
C33_Witness ==
    /\ last.op = "saveFinished"
    /\ saved # None
    /\ Len(saved[1].pages) = 2
    /\ DOMAIN saved[1].cropbox = {1}
    /\ active_crop_info # None
    /\ active_crop_info[1].view_mode = "odd_even"
    /\ images[1] = Some(PixmapDims(pdf_doc[1][1], None))

\* a crop is active whose stored dimensions cover every page, every page is
\* rendered, and the Delete button can be pressed with the boxes of `selected'
\* checked
C34_CanDelete(selected) ==
    /\ Alive /\ ButtonsEnabled /\ tool # "whiteout"
    /\ DocTruthy(Self)
    /\ active_crop_info # None
    /\ Len(active_crop_info[1].image_dims) = Len(pdf_doc[1])
    /\ thumbs = Len(pdf_doc[1])
    /\ Len(images) = Len(pdf_doc[1])
    /\ \A k \in 1..Len(images) : images[k] # None
    /\ selected # {}
    /\ selected \subseteq 0..(Len(pdf_doc[1]) - 1)

\* C34 as stated: deleting pages while a crop is active leaves the crop of
\* every surviving page as it was: the rectangle in PDF space that a save and
\* a render compute for the page from the re-indexed crop info is the one they
\* computed for that page before the deletion.
C34_AsStated ==
    \A selected \in SUBSET (0..(MaxPages - 1)) :
        C34_CanDelete(selected) =>
            LET r == deleteSelectedPages(Self, selected)
                before == active_crop_info[1]
                after == r.active_crop_info[1]
            IN  r.last.res = "deleted" =>
                  \A i \in (DOMAIN before.rects) \ selected :
                     LET j == C10_NewIndex(i, selected)
                     IN  /\ j \in DOMAIN after.rects
                         /\ SaveVisualRect(r.pdf_doc[1], after, j)
                               = SaveVisualRect(pdf_doc[1], before, i)
                         /\ RenderVisualClip(r.pdf_doc[1], r.active_crop_info, j)
                               = RenderVisualClip(pdf_doc[1], active_crop_info, i)

\* the dimensions of the full, unclipped raster of every page of doc
C35_FullDims(doc) == [k \in 1..Len(doc) |-> PixmapDims(doc[k], None)]

\* a crop is committed while every page of the document has its raster
C35_Commit ==
    /\ Step("cropSelection")
    /\ last'.res = "committed"
    /\ Len(images) = Len(pdf_doc[1])
    /\ \A k \in 1..Len(images) : images[k] # None

\* C35 as stated: after every crop commit, a commit made while another crop is
\* active included, the dimensions stored in the crop info are those of the
\* full, unclipped rasters of the document's pages, so that the scale factor
\* visual width / stored width of render and save is the number of PDF units
\* per pixel (1 / 1.5) of the overlay the rectangle was drawn on.
C35_AsStated ==
    [][C35_Commit =>
          LET ci == active_crop_info'[1]
          IN  /\ ci.image_dims = C35_FullDims(pdf_doc[1])
              /\ \A k \in 1..Len(pdf_doc[1]) :
                    /\ Zoom(RMul(RInt(pdf_doc[1][k].vw), Rat(1, ci.image_dims[k][1]))) = RInt(1)
                    /\ Zoom(RMul(RInt(pdf_doc[1][k].vh), Rat(1, ci.image_dims[k][2]))) = RInt(1)
       ]_vars

\* C36 as stated: in every reachable state of a document that has pages, the
\* preview selection is empty or a page number of the current document (after
\* a deletion and after an undo too), so that a whiteout drawn in the preview
\* has a page to go to.
C36_AsStated ==
    (preview_page_num # None /\ DocTruthy(Self)) =>
        preview_page_num[1] < Len(pdf_doc[1])

(***************************************************************************)
(* The selection signals step by step.  selectionChanged is connected      *)
(* directly, so that emit runs the slot before it returns: a slot calls    *)
(* setSelection on other views, which emit in turn.  st holds the three    *)
(* views' selections, _is_syncing_selection (syncing) and the number of    *)
(* slot calls made so far (calls).                                         *)
(***************************************************************************)
\* nested emits that are followed
MaxSignalDepth == 6

SyncState(single, odd, even) ==
    [ single_sel |-> single, odd_sel |-> odd, even_sel |-> even,
      syncing |-> FALSE, calls |-> 0 ]

RECURSIVE emit_selectionChanged(_, _, _, _)
RECURSIVE View_setSelection(_, _, _, _)
RECURSIVE View_clearSelection(_, _, _)

\* the slots with their test of the flag taken out
slot_unguarded(st, view, rect, depth) ==
    LET a == [st EXCEPT !.syncing = TRUE]
        other == IF view = "odd" THEN "even" ELSE "odd"
        other_selection == SelOf(a, other)
        b == IF view = "single"
             THEN View_setSelection(View_setSelection(a, "odd", rect, depth),
                                    "even", rect, depth)
             ELSE View_setSelection(
                      IF other_selection # None
                      THEN View_setSelection(a, other,
                                             QRectF(other_selection[1].x,
                                                    other_selection[1].y,
                                                    rect.w, rect.h), depth)
                      ELSE View_setSelection(a, other, rect, depth),
                      "single", rect, depth)
    IN  [b EXCEPT !.syncing = FALSE]

\* sync_selection_from_single, sync_selection_to_even, sync_selection_to_odd:
\* the slot connected to view's signal
slot(st, view, rect, depth) ==
    IF st.syncing THEN st
    ELSE LET a == [st EXCEPT !.syncing = TRUE]
             other == IF view = "odd" THEN "even" ELSE "odd"
             other_selection == SelOf(a, other)
             b == IF view = "single"
                  THEN View_setSelection(View_setSelection(a, "odd", rect, depth),
                                         "even", rect, depth)
                  ELSE View_setSelection(
                           IF other_selection # None
                           THEN View_setSelection(a, other,
                                                  QRectF(other_selection[1].x,
                                                         other_selection[1].y,
                                                         rect.w, rect.h), depth)
                           ELSE View_setSelection(a, other, rect, depth),
                           "single", rect, depth)
         IN  [b EXCEPT !.syncing = FALSE]

\* view.selectionChanged.emit(rect)
emit_selectionChanged(st, view, rect, depth) ==
    IF depth = 0 THEN st
    ELSE slot([st EXCEPT !.calls = @ + 1], view, rect, depth - 1)

\* PageGraphicsView.clearSelection
View_clearSelection(st, view, depth) ==
    IF SelOf(st, view) # None
    THEN emit_selectionChanged(WithSel(st, view, None), view, NullRect, depth)
    ELSE st

\* PageGraphicsView.setSelection
View_setSelection(st, view, rect, depth) ==
    IF ~QRectIsValid(rect)
    THEN IF SelOf(st, view) # None THEN View_clearSelection(st, view, depth) ELSE st
    ELSE IF SelOf(st, view) = Some(rect) THEN st
         ELSE emit_selectionChanged(WithSel(st, view, Some(rect)), view, rect, depth)

\* mouseReleaseEvent after a drag in view: the view holds the rectangle and
\* emits it, or clears an invalid one (rect is the null rectangle then)
mouseReleaseEvent(st, view, rect) ==
    IF QRectIsValid(rect)
    THEN emit_selectionChanged(WithSel(st, view, Some(rect)), view, rect, MaxSignalDepth)
    ELSE View_clearSelection(WithSel(st, view, Some(rect)), view, MaxSignalDepth)

SyncRects == {QRectF(1, 1, 8, 5), QRectF(2, 3, 4, 4), QRectF(2, 3, 8, 5)}

SyncSels == {None} \cup {Some(r) : r \in SyncRects}

SyncArgs ==
    [ single_sel : SyncSels, odd_sel : SyncSels, even_sel : SyncSels,
      view : Views, rect : SyncRects \cup {NullRect} ]

InitSync ==
    /\ InitWindow /\ InitCursors
    /\ probe \in {Probe("sync", a) : a \in SyncArgs}

ApplySync ==
    /\ probe # None
    /\ probe[1].fn = "sync"
    /\ probe[1].res = None
    /\ LET a == probe[1].args
       IN  probe' = Some([probe[1] EXCEPT !.res =
                           Some(mouseReleaseEvent(
                                    SyncState(a.single_sel, a.odd_sel, a.even_sel),
                                    a.view, a.rect))])
    /\ UNCHANGED window

SpecSync == InitSync /\ [][ApplySync]_vars

\* the other split view's selection after a change to rect in one split view
C37_Synced(other_before, rect) ==
    IF other_before # None
    THEN Some(QRectF(other_before[1].x, other_before[1].y, rect.w, rect.h))
    ELSE Some(rect)

\* C37: a change of the selection in the odd or the even view to a rectangle
\* gives the other of the two views that rectangle's width and height at the
\* other view's own top-left corner, or the whole rectangle when the other view
\* had no selection, and leaves the changed view's rectangle as drawn; every
\* change (in any view, a cleared selection included) makes at most three slot
\* calls, and _is_syncing_selection is false when the signal has been handled.
\* The selections end as the window's one-step selectionChanged computes them.
C37_SyncIsSizeOnlyAndLoopFree ==
    Probed("sync") =>
        LET a == probe[1].args
            res == probe[1].res[1]
            before == WithSel(SyncState(a.single_sel, a.odd_sel, a.even_sel), a.view,
                              IF QRectIsValid(a.rect) THEN Some(a.rect) ELSE None)
        IN  /\ (a.view = "odd" /\ QRectIsValid(a.rect)) =>
                  /\ res.even_sel = C37_Synced(a.even_sel, a.rect)
                  /\ res.odd_sel = Some(a.rect)
            /\ (a.view = "even" /\ QRectIsValid(a.rect)) =>
                  /\ res.odd_sel = C37_Synced(a.odd_sel, a.rect)
                  /\ res.even_sel = Some(a.rect)
            /\ res.calls <= 3
            /\ ~res.syncing
            /\ [res EXCEPT !.calls = 0] = selectionChanged(before, a.view, a.rect)

\* a rectangle was drawn in the odd view while the even view had a selection
\* of another size at another place; the slot ran, and the signals of the two
\* views it set ran into the flag
C37_Witness ==
    /\ Probed("sync")
    /\ probe[1].args.view = "odd"
    /\ probe[1].args.rect = QRectF(1, 1, 8, 5)
    /\ probe[1].args.even_sel = Some(QRectF(2, 3, 4, 4))
    /\ probe[1].res[1].even_sel = Some(QRectF(2, 3, 8, 5))
    /\ probe[1].res[1].calls = 3

(***************************************************************************)
(* A session of selecting only: one file, rectangles drawn or moved to     *)
(* different places in the views, view-mode switches and preview toggles.  *)
(***************************************************************************)
\* two places for a selection of one size
SelectRects == {QRectF(1, 1, 8, 5), QRectF(2, 3, 8, 5)}

DrawSelectionAt ==
    /\ Alive /\ tool = "select"
    /\ \E view \in Views, rect \in SelectRects :
          /\ Visible(Self, view)
          /\ Becomes(Did(selectionChanged(WithSel(Self, view, Some(rect)), view, rect),
                         "selectionChanged", view))

NextSelect ==
    \/ OpenForEditing
    \/ RenderResult
    \/ WorkerFinished
    \/ DrawSelectionAt
    \/ ChooseViewMode
    \/ ClickThumbnail

SpecSelect == Init /\ [][NextSelect]_vars

\* a document is open and rendered, and the even view's selection lies at
\* another place than the odd view's
C38_OwnPosition ==
    /\ DocTruthy(Self) /\ ~is_processing
    /\ odd_sel # None
    /\ even_sel # None
    /\ <<even_sel[1].x, even_sel[1].y>> # <<odd_sel[1].x, odd_sel[1].y>>

\* C38 as stated: a preview toggle and a switch of the view mode keep the
\* user's selections: a selection of the even view that lies at another place
\* than the odd view's is still at its own place after the toggle or switch.
C38_AsStated ==
    [][ ( /\ Step("setViewMode") \/ Step("togglePagePreview")
          /\ C38_OwnPosition ) =>
            /\ even_sel' # None
            /\ even_sel'[1].x = even_sel[1].x
            /\ even_sel'[1].y = even_sel[1].y
      ]_vars

(***************************************************************************)
(* The edit-and-undo session with the stack of override cursors followed.  *)
(***************************************************************************)
\* override cursors on the stack at once
MaxCursors == 3

InitCursor == probe = None /\ InitWindow /\ override_cursors = Some(0)

CursorsBelowBound == override_cursors[1] < MaxCursors

NextCursor ==
    \/ CursorsBelowBound /\ OpenForEditing
    \/ CursorsBelowBound /\ ChooseViewMode
    \/ CursorsBelowBound /\ ClickWhiteoutTool
    \/ CursorsBelowBound /\ DrawWhiteoutOnAll
    \/ CursorsBelowBound /\ DeletePages
    \/ CursorsBelowBound /\ ClickUndo
    \/ CursorsBelowBound /\ RenderResult
    \/ CursorsBelowBound /\ WorkerFinished

SpecCursor == InitCursor /\ [][NextCursor]_vars

\* C39 as stated: the busy indication is balanced: whenever the busy flag is
\* false, no override cursor is on the stack (every setOverrideCursor of
\* setUIProcessing(True) was undone by one restoreOverrideCursor).
C39_AsStated ==
    (override_cursors # None /\ ~is_processing) => override_cursors[1] = 0


(***************************************************************************)
(* The standalone single-file variant (src/pycroppdf.py): the split        *)
(* composites and the canvas of the crop transform.  Its rasters are       *)
(* rendered synchronously in loadPDF, so every raster is present.          *)
(***************************************************************************)
\* updateSplitViewOverlay of the standalone variant: odd_pages = images[::2],
\* even_pages = images[1::2], each composited on a canvas of the maximum
\* width and height of its own list, by the same painter loop as Composite
Standalone_updateSplitViewOverlay(imgs) ==
    IF Len(imgs) = 0 THEN [odd |-> None, even |-> None]
    ELSE LET odd_pages == OddIdx(Len(imgs))
             even_pages == EvenIdx(Len(imgs))
         IN  [ odd  |-> IF Len(odd_pages) > 0
                        THEN Some(Composite(imgs, odd_pages,
                                            MaxWidthOf(imgs, odd_pages),
                                            MaxHeightOf(imgs, odd_pages)))
                        ELSE None,
               even |-> IF Len(even_pages) > 0
                        THEN Some(Composite(imgs, even_pages,
                                            MaxWidthOf(imgs, even_pages),
                                            MaxHeightOf(imgs, even_pages)))
                        ELSE None ]

\* the crop canvas taken over every raster of the document
Standalone_cropSelection_canvas_all_pages(imgs, page_num) ==
    LET every == Indices(Len(imgs))
        max_width == MaxWidthOf(imgs, every)
        max_height == MaxHeightOf(imgs, every)
        page_width == imgs[page_num + 1][1][1]
        page_height == imgs[page_num + 1][1][2]
    IN  [ max_width |-> max_width, max_height |-> max_height,
          x_offset |-> (max_width - page_width) \div 2,
          y_offset |-> (max_height - page_height) \div 2 ]

\* the split-mode branch of the standalone cropSelection for page page_num
\* (0-based): the canvas is the maximum over images[page_num % 2::2], the
\* offsets centre the page's own raster on it
Standalone_cropSelection_canvas(imgs, page_num) ==
    LET group == IF page_num % 2 = 0 THEN OddIdx(Len(imgs))
                                     ELSE EvenIdx(Len(imgs))
        max_width == MaxWidthOf(imgs, group)
        max_height == MaxHeightOf(imgs, group)
        page_width == imgs[page_num + 1][1][1]
        page_height == imgs[page_num + 1][1][2]
    IN  [ max_width |-> max_width, max_height |-> max_height,
          x_offset |-> (max_width - page_width) \div 2,
          y_offset |-> (max_height - page_height) \div 2 ]

\* the standalone window in split mode on every list of present rasters
InitStandalone ==
    /\ InitWindow /\ InitCursors
    /\ probe \in UNION {{Probe("standalone", [images |-> l])
                          : l \in {r \in RasterLists(n) : \A k \in 1..n : r[k] # None}}
                         : n \in 1..MaxCompositePages}

\* the split overlay is composed, and a crop with a selection in both views
\* computes its canvas for every page
ApplyStandalone ==
    /\ probe # None
    /\ probe[1].fn = "standalone"
    /\ probe[1].res = None
    /\ LET imgs == probe[1].args.images
       IN  probe' = Some([probe[1] EXCEPT !.res =
                 Some([ overlay |-> Standalone_updateSplitViewOverlay(imgs),
                        crop |-> [k \in 1..Len(imgs) |->
                                    Standalone_cropSelection_canvas(imgs, k - 1)] ])])
    /\ UNCHANGED window

SpecStandalone == InitStandalone /\ [][ApplyStandalone]_vars

\* the pages (0-based) of the given parity
C40_Group(imgs, parity) == {p \in 0..(Len(imgs) - 1) : p % 2 = parity}

\* the greatest width (axis 1) or height (axis 2) among the rasters of pages
C40_Greatest(imgs, pages, axis) ==
    LET S == {imgs[p + 1][1][axis] : p \in pages}
    IN  CHOOSE m \in S : \A x \in S : x <= m

\* the split canvases, in the compositor and in the crop transform, have the
\* dimensions given by size(parity, axis)
C40_CanvasesAre(size(_, _)) ==
    LET imgs == probe[1].args.images
        r == probe[1].res[1]
    IN  /\ r.overlay.odd # None
        /\ r.overlay.odd[1].w = size(0, 1)
        /\ r.overlay.odd[1].h = size(0, 2)
        /\ (r.overlay.even # None) = (Len(imgs) > 1)
        /\ r.overlay.even # None =>
              /\ r.overlay.even[1].w = size(1, 1)
              /\ r.overlay.even[1].h = size(1, 2)
        /\ \A p \in 0..(Len(imgs) - 1) :
              /\ r.crop[p + 1].max_width = size(p % 2, 1)
              /\ r.crop[p + 1].max_height = size(p % 2, 2)

====
